---- MODULE Spec2Model ----
(***************************************************************************)
(* news-pulse-bot: the deduplication store (services/deduplication.ts),    *)
(* the verifier (services/verifier.ts), withRetry and the text helpers     *)
(* (utils/helpers.ts) and the category collectors, as state machines.      *)
(*                                                                         *)
(* Text is a sequence of one-character strings (titles, source names) or   *)
(* of opaque chunks (the parts of a URL), so that toLowerCase, trim, the   *)
(* whitespace collapse, includes and the query-parameter removal are       *)
(* computed as the code computes them.                                     *)
(***************************************************************************)
EXTENDS Integers, Sequences, FiniteSets, TLC

VARIABLES
    db,        \* DeduplicationService.db: "null" or "open"
    rows,      \* the rows of table seen_news held by the in-memory database
    file,      \* the store file at dbPath: [exists, rows]
    now,       \* the wall clock (new Date()), in ticks
    last,      \* the last store call: its name, arguments, outcome and result
    live,      \* hashes filterNew has returned since the store was opened and cleanup has not removed
    stopped,   \* what the last process stop lost: the rows in memory, and the call it came after
    vItems,    \* verifyNews: the items it was called with
    vPc,       \* verifyNews: "idle", "attempt" (callAI in flight), "sleep" (withRetry's sleep), "done"
    vAttempt,  \* withRetry: the attempt number
    vCalls,    \* the number of callAI invocations so far
    vFailed,   \* the number of them that threw
    vSleeps,   \* the sleeps withRetry has made, in order
    vText,     \* the response text of the attempt that succeeded
    vOut,      \* verifyNews: its outcome, the path taken and the result
    cCat,      \* the collector running: its category
    cWeekend,  \* isWeekendIndia()
    cClock,    \* the instant and the process's timezone offset the collector was called at
    cKey,      \* NEWS_API_KEY is set
    cTasks,    \* the collector's adapter promises: "pending", "fulfilled" or "rejected"
    cOut,      \* the collector: its outcome and result
    hPair,     \* the two items whose hashes are compared, or <<>>
    hOut,      \* their hashes, and what filterNew returns for the two on an empty table
    pPc,       \* runNewsPipeline: "idle", "collecting", "verifying", "handoff", "notice", "done"
    pRun,      \* the number of runs started
    pIn,       \* the three collector promises: status, news and errors of each
    pStart,    \* the hashes in the store when the run started
    pErrors,   \* allErrors
    pPassed,   \* the item sequences passed to filterNew, in call order
    pNew,      \* newCryptoNews, newStockNews, newGeoNews by category
    pVerify,   \* the item sequences passed to verifyNews, in call order
    pVerified, \* verifiedItems
    pPayload,  \* the arguments of sendNewsBulletin, once it is called
    pSend,     \* the delivery collaborator: bulletin and notice outcomes, lastSuccessfulSend
    pRaised,   \* the stage whose exception reached the catch block, or "none"
    pPrev,     \* the hashes passed to filterNew in the run before, when it completed
    pSaves,    \* the outcomes of the run's save() calls, in order
    pSeen,     \* the hashes filterNew has recorded and cleanup has not removed since
    sPc,       \* sendNewsBulletin: "idle", "bulletin", "note", "returned" or "raised"
    sArgs,     \* its arguments
    sQueue,    \* the texts of the bulletin not yet passed to sendHtml
    sSent,     \* the texts bot.api.sendMessage has accepted in this call, in order
    rPc,       \* withRetry: "idle", "attempt" (fn in flight), "sleep", "returned" or "raised"
    rArgs,     \* its arguments maxRetries and delayMs
    rAttempt,  \* the loop variable attempt
    rTrace,    \* what the call has done so far: fn invocations and sleeps, in order
    rOut,      \* what it returned or threw
    gTitle,    \* cleanGoogleNewsTitle: its argument, or <<>> before the call
    gOut,      \* its result
    oRuns      \* the morning and the evening run when they may overlap: stage, news, new items

storeVars == <<db, rows, file, now, last, live, stopped>>

verifyVars == <<vItems, vPc, vAttempt, vCalls, vFailed, vSleeps, vText, vOut>>

collectVars == <<cCat, cWeekend, cClock, cKey, cTasks, cOut>>

hashVars == <<hPair, hOut>>

retryVars == <<rPc, rArgs, rAttempt, rTrace, rOut>>

titleVars == <<gTitle, gOut>>

overlapVars == <<oRuns>>

helperVars == <<hashVars, retryVars, titleVars, overlapVars>>

runVars == <<pPc, pRun, pIn, pStart, pErrors, pPassed, pNew, pVerify, pVerified, pPayload,
             pSend, pRaised, pPrev, pSaves, pSeen>>

sendVars == <<sPc, sArgs, sQueue, sSent>>

pipeVars == <<runVars, sendVars>>

vars == <<storeVars, verifyVars, collectVars, helperVars, pipeVars>>

----------------------------------------------------------------------------
(* Bounds of the model *)

\* the longest item sequence passed to filterNew
MaxBatch == 2

\* the last clock tick
MaxTime == 1

\* clock ticks per calendar day
TicksPerDay == 1

\* the largest daysOld passed to cleanup
MaxDays == 1

----------------------------------------------------------------------------
(* Text helpers: utils/helpers.ts *)

UpperChars == <<"A", "B", "C", "D", "E", "F", "G", "H", "I", "J", "K", "L", "M",
                "N", "O", "P", "Q", "R", "S", "T", "U", "V", "W", "X", "Y", "Z">>

LowerChars == <<"a", "b", "c", "d", "e", "f", "g", "h", "i", "j", "k", "l", "m",
                "n", "o", "p", "q", "r", "s", "t", "u", "v", "w", "x", "y", "z">>

\* String.prototype.toLowerCase on one character
LowerChar(c) ==
    IF \E i \in 1..Len(UpperChars) : UpperChars[i] = c
    THEN LowerChars[CHOOSE i \in 1..Len(UpperChars) : UpperChars[i] = c]
    ELSE c

\* String.prototype.toLowerCase
ToLowerCase(s) == [i \in 1..Len(s) |-> LowerChar(s[i])]

\* the characters \s matches and trim() removes
IsSpace(c) == c \in {" ", "\t", "\n"}

\* String.prototype.trim
RECURSIVE TrimStart(_)
TrimStart(s) ==
    IF s = <<>> THEN <<>>
    ELSE IF IsSpace(Head(s)) THEN TrimStart(Tail(s)) ELSE s

RECURSIVE TrimEnd(_)
TrimEnd(s) ==
    IF s = <<>> THEN <<>>
    ELSE IF IsSpace(s[Len(s)]) THEN TrimEnd(SubSeq(s, 1, Len(s) - 1)) ELSE s

Trim(s) == TrimEnd(TrimStart(s))

\* replace(/\s+/g, ' '): every maximal run of whitespace becomes one space
RECURSIVE CollapseSpaces(_)
CollapseSpaces(s) ==
    IF s = <<>> THEN <<>>
    ELSE IF IsSpace(Head(s))
         THEN <<" ">> \o CollapseSpaces(TrimStart(s))
         ELSE <<Head(s)>> \o CollapseSpaces(Tail(s))

\* the normalization without the replace: whitespace runs keep their length
normalizeTitleKeepsRuns(title) == Trim(ToLowerCase(title))

\* a replace of whitespace pairs only: a run of four becomes a run of two
RECURSIVE CollapsePairs(_)
CollapsePairs(s) ==
    IF s = <<>> THEN <<>>
    ELSE IF Len(s) >= 2 /\ IsSpace(s[1]) /\ IsSpace(s[2])
         THEN <<" ">> \o CollapsePairs(Tail(Tail(s)))
         ELSE <<IF IsSpace(Head(s)) THEN " " ELSE Head(s)>> \o CollapsePairs(Tail(s))

\* the normalization with that replace
normalizeTitleCollapsesPairs(title) == CollapsePairs(Trim(ToLowerCase(title)))

\* normalizeTitle: title.toLowerCase().trim().replace(/\s+/g, ' ')
normalizeTitle(title) == CollapseSpaces(Trim(ToLowerCase(title)))

\* the query parameters normalizeUrl deletes
TrackingParams == {"utm_source", "utm_medium", "utm_campaign", "utm_content", "utm_term"}

\* A URL is a sequence of chunks: the scheme ("https:"), the rest up to the
\* query, then, when it has a query, "?" and the parameters name, "=", value
\* separated by "&".
Schemes == {"https:", "http:"}

\* new URL(url) parses: the string starts with a scheme
ParsesAsUrl(url) == url # <<>> /\ Head(url) \in Schemes

\* the index of the first chunk c of s, or Len(s) + 1
IndexOf(s, c) ==
    IF \E i \in 1..Len(s) : s[i] = c
    THEN CHOOSE i \in 1..Len(s) : s[i] = c /\ \A j \in 1..(i - 1) : s[j] # c
    ELSE Len(s) + 1

\* the URL up to its query
UrlBase(url) == SubSeq(url, 1, IndexOf(url, "?") - 1)

\* the query after "?"
UrlQuery(url) == SubSeq(url, IndexOf(url, "?") + 1, Len(url))

\* URLSearchParams: the query split at "&" into its parameters
RECURSIVE SplitParams(_)
SplitParams(q) ==
    IF q = <<>> THEN <<>>
    ELSE LET k == IndexOf(q, "&")
         IN  (IF k = 1 THEN <<>> ELSE <<SubSeq(q, 1, k - 1)>>)
             \o SplitParams(SubSeq(q, k + 1, Len(q)))

\* URLSearchParams.toString: name=value joined by "&"
RECURSIVE JoinParams(_)
JoinParams(ps) ==
    IF ps = <<>> THEN <<>>
    ELSE (IF Len(Head(ps)) = 1 THEN Head(ps) \o <<"=">> ELSE Head(ps))
         \o (IF Len(ps) > 1 THEN <<"&">> \o JoinParams(Tail(ps)) ELSE <<>>)

\* normalizeUrl: delete the tracking parameters of a URL that parses and
\* serialize it again; return a string that does not parse as it is
normalizeUrl(url) ==
    IF ParsesAsUrl(url)
    THEN LET kept == SelectSeq(SplitParams(UrlQuery(url)),
                               LAMBDA p : Head(p) \notin TrackingParams)
         IN  IF kept = <<>> THEN UrlBase(url)
             ELSE UrlBase(url) \o <<"?">> \o JoinParams(kept)
    ELSE url

\* hashString: SHA-256 of the text, taken as collision-free
hashString(input) == input

\* a hash that takes the category in as well
computeHashWithCategory(item) ==
    hashString(<<item.category, "|">> \o normalizeUrl(item.url) \o <<"|">>
               \o normalizeTitle(item.title))

\* DeduplicationService.computeHash: hashString(`${normalizeUrl(url)}|${normalizeTitle(title)}`)
computeHash(item) == hashString(normalizeUrl(item.url) \o <<"|">> \o normalizeTitle(item.title))

----------------------------------------------------------------------------
(* Items: types/index.ts NewsItem *)

Categories == {"crypto", "indian-stocks", "geopolitical"}

\* publishedAt is optional: NoDate stands for undefined
NoDate == -1

NewsItem(title, url, source, category, publishedAt) ==
    [title |-> title, url |-> url, source |-> source, category |-> category,
     publishedAt |-> publishedAt]

\* The items the store operations are called with: the first two differ in
\* title case and spacing, in a tracking parameter and in category and have
\* the same content hash; the third differs from them in URL and title.
ItemPool ==
    { NewsItem(<<"A", " ", "b">>, <<"https:", "//x.com/a">>,
               <<"R", "e", "u", "t", "e", "r", "s">>, "crypto", 2),
      NewsItem(<<"a", " ", " ", "B", " ">>,
               <<"https:", "//x.com/a", "?", "utm_source", "=", "x">>,
               <<"S", "o", "m", "e", " ", "B", "l", "o", "g">>, "indian-stocks", NoDate),
      NewsItem(<<"c">>, <<"https:", "//y.com/b">>,
               <<"b", "b", "c", " ", "n", "e", "w", "s">>, "geopolitical", 1) }

\* The items whose hashes are compared: every URL below with every title.
\* The URLs: one that parses, the same with tracking parameters and with
\* another parameter, one with "|" in its path, and three strings that do
\* not parse (no scheme), with a tracking parameter and with "|".
HashUrls ==
    { <<"https:", "//x.com/a">>,
      <<"https:", "//x.com/a", "?", "utm_source", "=", "x">>,
      <<"https:", "//x.com/a", "?", "utm_source", "=", "y", "&", "utm_term", "=", "z">>,
      <<"https:", "//x.com/a", "?", "id", "=", "1">>,
      <<"https:", "//x.com/a", "?", "id", "=", "1", "&", "utm_medium", "=", "y">>,
      <<"https:", "//x.com/a", "|", "b">>,
      <<"x.com/a">>,
      <<"x.com/a", "?", "utm_source", "=", "x">>,
      <<"x.com/a", "|", "b">> }

HashTitles ==
    { <<"c">>, <<" ", "C", " ">>, <<"b", "|", "c">>, <<"B", "|", "c">>,
      <<"b", " ", "c">>, <<"B", " ", " ", "c">>,
      <<"B", " ", " ", " ", " ", "c">>, <<"\t", "b", "\n", "\t", "C", " ">> }

HashSource == <<"R", "e", "u", "t", "e", "r", "s">>

HashItems ==
    { NewsItem(title, url, HashSource, "crypto", NoDate) : title \in HashTitles, url \in HashUrls }

\* The news the three collectors can return to the orchestrator, each item
\* tagged with its collector's category: the stock item has the content
\* hash of the first crypto item; "Some Blog" is not on the allow-list; two
\* items have URLs so long that a bulletin with both exceeds one message.
\* URL paths of about 2000 and of about 4100 characters
LongPath == "//y.com/(a path of 2000 characters)"

LongPathToo == "//z.com/(a path of 2000 characters)"

HugePath == "//x.com/(a path of 4100 characters)"

CryptoNews ==
    << NewsItem(<<"A", " ", "b">>, <<"https:", "//x.com/a">>,
                <<"C", "o", "i", "n", "D", "e", "s", "k">>, "crypto", NoDate),
       NewsItem(<<"c">>, <<"https:", LongPath>>,
                <<"S", "o", "m", "e", " ", "B", "l", "o", "g">>, "crypto", NoDate) >>

StockNews ==
    << NewsItem(<<"a", " ", " ", "B", " ">>,
                <<"https:", "//x.com/a", "?", "utm_source", "=", "x">>,
                <<"M", "o", "n", "e", "y", "c", "o", "n", "t", "r", "o", "l">>,
                "indian-stocks", NoDate) >>

GeoNews ==
    << NewsItem(<<"d">>, <<"https:", LongPathToo>>,
                <<"b", "b", "c", " ", "n", "e", "w", "s">>, "geopolitical", NoDate) >>

PipeItems ==
    { CryptoNews[i] : i \in 1..Len(CryptoNews) }
    \cup { StockNews[i] : i \in 1..Len(StockNews) }
    \cup { GeoNews[i] : i \in 1..Len(GeoNews) }

\* the sequences of at most n elements of S
SeqsUpTo(S, n) == UNION { [1..k -> S] : k \in 0..n }

\* the item sequences filterNew is called with: no item twice
Batches ==
    { items \in SeqsUpTo(ItemPool, MaxBatch) :
        \A i, j \in 1..Len(items) : items[i] = items[j] => i = j }

\* computeHash on the items of the pool
contentHash == [item \in ItemPool \cup HashItems \cup PipeItems |-> computeHash(item)]

\* the hashes of a sequence of items
HashesOf(items) == { contentHash[items[i]] : i \in 1..Len(items) }

----------------------------------------------------------------------------
(* The store: services/deduplication.ts *)

\* seen_news rows: (hash, title, category, first_seen)
SeenRecord(hash, title, category, first_seen) ==
    [hash |-> hash, title |-> title, category |-> category, first_seen |-> first_seen]

\* SELECT 1 FROM seen_news WHERE hash = ? returns a row
SelectByHash(rws, hash) == \E r \in rws : r.hash = hash

\* the INSERT lost: nothing is stored
InsertDropped(rws, row) == rws

\* INSERT OR IGNORE INTO seen_news: hash is the PRIMARY KEY, so a row whose
\* hash is already in the table is ignored
InsertOrIgnore(rws, row) ==
    IF \E r \in rws : r.hash = row.hash THEN rws ELSE rws \cup {row}

\* the round without the SELECT: every item is pushed
FilterStepNoLookup(acc, item, t) ==
    [rows     |-> InsertOrIgnore(acc.rows,
                     SeenRecord(contentHash[item], item.title, item.category, t)),
     newItems |-> Append(acc.newItems, item)]

\* the round with a plain INSERT into a table without the primary key, made
\* whether or not the SELECT found the hash
FilterStepBlindInsert(acc, item, t) ==
    [rows     |-> acc.rows \cup {SeenRecord(contentHash[item], item.title, item.category, t)},
     newItems |-> IF SelectByHash(acc.rows, contentHash[item])
                  THEN acc.newItems ELSE Append(acc.newItems, item)]

\* the round with INSERT OR REPLACE, made whether or not the SELECT found
\* the hash
FilterStepReplaces(acc, item, t) ==
    [rows     |-> { r \in acc.rows : r.hash # contentHash[item] }
                  \cup {SeenRecord(contentHash[item], item.title, item.category, t)},
     newItems |-> IF SelectByHash(acc.rows, contentHash[item])
                  THEN acc.newItems ELSE Append(acc.newItems, item)]

\* one round of filterNew's loop (lines 52-62) on the pair [rows, newItems]
FilterStep(acc, item, t) ==
    LET hash == contentHash[item]
    IN  IF ~SelectByHash(acc.rows, hash)
        THEN [rows     |-> InsertOrIgnore(acc.rows,
                              SeenRecord(hash, item.title, item.category, t)),
              newItems |-> Append(acc.newItems, item)]
        ELSE acc

\* filterNew's loop over items, from table rws at time t
RECURSIVE FilterLoop(_, _, _)
FilterLoop(items, acc, t) ==
    IF items = <<>> THEN acc
    ELSE FilterLoop(Tail(items), FilterStep(acc, Head(items), t), t)

\* what fs.writeFileSync can do: write the file, or fail and leave the file
\* as it was, or fail after truncating it (an empty file loads as an empty
\* database)
WriteOutcomes == {"written", "failed", "failed_truncated"}

\* save(): the file after db.export() is written with outcome w
FileAfterSave(rws, w) ==
    CASE w = "written"          -> [exists |-> TRUE, rows |-> rws]
      [] w = "failed"           -> file
      [] w = "failed_truncated" -> [exists |-> TRUE, rows |-> {}]

\* save() with outcome w when the file is fl
FileAfterSaveOn(fl, rws, w) ==
    CASE w = "written"          -> [exists |-> TRUE, rows |-> rws]
      [] w = "failed"           -> fl
      [] w = "failed_truncated" -> [exists |-> TRUE, rows |-> {}]

Outcome(w) == IF w = "written" THEN "returned" ELSE "raised"

NoItems == <<>>

Call(op, outcome, items, result, count) ==
    [op |-> op, outcome |-> outcome, items |-> items, result |-> result, count |-> count,
     today |-> 0, days |-> 0]

\* no process stop came directly before
NotStopped == [rows |-> {}, after |-> Call("none", "returned", NoItems, NoItems, 0)]

\* the state after construction: no database, no call made yet; the store
\* file may be there from an earlier process
StoreInit ==
    /\ db = "null"
    /\ rows = {}
    /\ file = [exists |-> FALSE, rows |-> {}]
    /\ now = 0
    /\ last = Call("none", "returned", NoItems, NoItems, 0)
    /\ live = {}
    /\ stopped = NotStopped

\* initialize(): load the file if it exists, else a new database; create the
\* table if it is missing; save
Initialize(w) ==
    /\ db' = "open"
    /\ rows' = IF file.exists THEN file.rows ELSE {}
    /\ file' = FileAfterSave(rows', w)
    /\ last' = Call("initialize", Outcome(w), NoItems, NoItems, 0)
    /\ live' = {}
    /\ stopped' = IF last.op = "stop" THEN stopped ELSE NotStopped
    /\ UNCHANGED <<now, verifyVars, collectVars, helperVars, pipeVars>>

\* filterNew without the test of this.db: the loop runs on whatever table
\* there is
FilterNewUnguarded(items, w) ==
    /\ UNCHANGED <<verifyVars, collectVars, helperVars, pipeVars>>
    /\ IF items = <<>>
       THEN /\ w = "written"
            /\ last' = Call("filterNew", "returned", items, items, 0)
            /\ stopped' = NotStopped
            /\ UNCHANGED <<db, rows, file, now, live>>
       ELSE LET done == FilterLoop(items, [rows |-> rows, newItems |-> <<>>], now)
            IN  /\ rows' = done.rows
                /\ file' = FileAfterSave(done.rows, w)
                /\ last' = Call("filterNew", Outcome(w), items,
                                IF w = "written" THEN done.newItems ELSE NoItems, 0)
                /\ live' = IF w = "written" THEN live \cup HashesOf(done.newItems) ELSE live
                /\ stopped' = NotStopped
                /\ UNCHANGED <<db, now>>

\* filterNew(items)
FilterNew(items, w) ==
    /\ UNCHANGED <<verifyVars, collectVars, helperVars, pipeVars>>
    /\ IF db = "null" \/ items = <<>>
       THEN /\ w = "written"
            /\ last' = Call("filterNew", "returned", items, items, 0)
            /\ stopped' = NotStopped
            /\ UNCHANGED <<db, rows, file, now, live>>
       ELSE LET done == FilterLoop(items, [rows |-> rows, newItems |-> <<>>], now)
            IN  /\ rows' = done.rows
                /\ file' = FileAfterSave(done.rows, w)
                /\ last' = Call("filterNew", Outcome(w), items,
                                IF w = "written" THEN done.newItems ELSE NoItems, 0)
                /\ live' = IF w = "written" THEN live \cup HashesOf(done.newItems) ELSE live
                /\ stopped' = NotStopped
                /\ UNCHANGED <<db, now>>

\* the DELETE with first_seen <= cutoff
ExpiredRowsInclusive(rws, t, daysOld) ==
    { r \in rws : r.first_seen <= t - daysOld * TicksPerDay }

\* DELETE FROM seen_news WHERE first_seen < cutoff, cutoff = now - daysOld days
ExpiredRows(rws, t, daysOld) == { r \in rws : r.first_seen < t - daysOld * TicksPerDay }

\* cleanup without its save()
CleanupNoSave(daysOld, w) ==
    /\ db = "open"
    /\ w = "written"
    /\ rows' = rows \ ExpiredRows(rows, now, daysOld)
    /\ last' = [Call("cleanup", "returned", NoItems, NoItems,
                     Cardinality(ExpiredRows(rows, now, daysOld)))
                EXCEPT !.days = daysOld]
    /\ live' = live \ { r.hash : r \in ExpiredRows(rows, now, daysOld) }
    /\ stopped' = NotStopped
    /\ UNCHANGED <<db, file, now, verifyVars, collectVars, helperVars, pipeVars>>

\* cleanup(daysOld)
Cleanup(daysOld, w) ==
    /\ UNCHANGED <<verifyVars, collectVars, helperVars, pipeVars>>
    /\ IF db = "null"
       THEN /\ w = "written"
            /\ last' = [Call("cleanup", "returned", NoItems, NoItems, 0)
                        EXCEPT !.days = daysOld]
            /\ stopped' = NotStopped
            /\ UNCHANGED <<db, rows, file, now, live>>
       ELSE LET gone == ExpiredRows(rows, now, daysOld)
            IN  /\ rows' = rows \ gone
                /\ file' = FileAfterSave(rows', w)
                /\ last' = [Call("cleanup", Outcome(w), NoItems, NoItems,
                                 IF w = "written" THEN Cardinality(gone) ELSE 0)
                            EXCEPT !.days = daysOld]
                /\ live' = live \ { r.hash : r \in gone }
                /\ stopped' = NotStopped
                /\ UNCHANGED <<db, now>>

\* todayStart: local midnight of the current day
TodayStart(t) == t - (t % TicksPerDay)

\* getStats(): total = COUNT(*), today = COUNT(*) WHERE first_seen >= todayStart
GetStats ==
    /\ last' = [Call("getStats", "returned", NoItems, NoItems,
                     IF db = "null" THEN 0 ELSE Cardinality(rows))
                EXCEPT !.today = IF db = "null" THEN 0
                                 ELSE Cardinality({ r \in rows : r.first_seen >= TodayStart(now) })]
    /\ stopped' = NotStopped
    /\ UNCHANGED <<db, rows, file, now, live, verifyVars, collectVars, helperVars, pipeVars>>

\* close(): save, then close and drop the database
Close(w) ==
    /\ UNCHANGED <<verifyVars, collectVars, helperVars, pipeVars>>
    /\ IF db = "null"
       THEN /\ w = "written"
            /\ last' = Call("close", "returned", NoItems, NoItems, 0)
            /\ stopped' = NotStopped
            /\ UNCHANGED <<db, rows, file, now, live>>
       ELSE /\ file' = FileAfterSave(rows, w)
            /\ db' = IF w = "written" THEN "null" ELSE db
            /\ rows' = IF w = "written" THEN {} ELSE rows
            /\ last' = Call("close", Outcome(w), NoItems, NoItems, 0)
            /\ live' = {}
            /\ stopped' = NotStopped
            /\ UNCHANGED now

\* the process stops without close(): the in-memory database is lost
ProcessStop ==
    /\ db = "open"
    /\ db' = "null"
    /\ rows' = {}
    /\ last' = Call("stop", "returned", NoItems, NoItems, 0)
    /\ live' = {}
    /\ stopped' = [rows |-> rows, after |-> last]
    /\ UNCHANGED <<file, now, verifyVars, collectVars, helperVars, pipeVars>>

\* time passes
Tick ==
    /\ now < MaxTime
    /\ now' = now + 1
    /\ UNCHANGED <<db, rows, file, last, live, stopped, verifyVars, collectVars, helperVars, pipeVars>>

StoreNext ==
    \/ \E w \in WriteOutcomes : Initialize(w)
    \/ \E items \in Batches, w \in WriteOutcomes : FilterNew(items, w)
    \/ \E d \in 0..MaxDays, w \in WriteOutcomes : Cleanup(d, w)
    \/ GetStats
    \/ \E w \in WriteOutcomes : Close(w)
    \/ ProcessStop
    \/ Tick

----------------------------------------------------------------------------
(* withRetry: utils/helpers.ts, as the verifier calls it *)

\* verifyNews passes maxRetries = 2 and delayMs = 5000
VerifyMaxRetries == 2

VerifyDelayMs == 5000

\* the backoff that does not grow: sleep delayMs after every failed attempt
\* but the last
AfterFailureConstantDelay(attempt, maxRetries, delayMs) ==
    IF attempt < maxRetries
    THEN [next |-> "sleep", delay |-> delayMs]
    ELSE [next |-> "throw", delay |-> 0]

\* withRetry after a failed attempt: sleep delayMs * attempt when attempts
\* remain, else throw the last error
AfterFailure(attempt, maxRetries, delayMs) ==
    IF attempt < maxRetries
    THEN [next |-> "sleep", delay |-> delayMs * attempt]
    ELSE [next |-> "throw", delay |-> 0]

\* the largest maxRetries passed to withRetry (the callers pass 2 and 3, the
\* default is 3)
RetryLimit == 3

\* the delayMs values the callers pass
RetryDelays == {2000, 3000, 5000}

\* what fn can throw: an Error, or a value that is not one
Thrown(isError, message) == [isError |-> isError, message |-> message]

FnThrown == { Thrown(TRUE, "timeout"), Thrown(FALSE, "reset") }

\* what fn can resolve to
FnValues == {"first", "second"}

\* lastError = err instanceof Error ? err : new Error(String(err))
AsError(err) == IF err.isError THEN err ELSE Thrown(TRUE, err.message)

\* the entries of rTrace: an invocation of fn with its attempt number and
\* what came of it, and a sleep with its milliseconds
FnEvent(attempt, result) == [kind |-> "fn", n |-> attempt, result |-> result]

SleepEvent(ms) == [kind |-> "sleep", n |-> ms, result |-> "slept"]

NoRetryArgs == [maxRetries |-> 0, delayMs |-> 0]

NoRetryResult == [outcome |-> "none", value |-> "none", lastError |-> Thrown(TRUE, "none")]

\* no withRetry call has been made
RetryInit ==
    /\ rPc = "idle"
    /\ rArgs = NoRetryArgs
    /\ rAttempt = 0
    /\ rTrace = <<>>
    /\ rOut = NoRetryResult

\* the for loop's test after attempt++: the next attempt, or throw lastError
LoopTest(attempt, maxRetries) == IF attempt <= maxRetries THEN "attempt" ELSE "raised"

\* withRetry(fn, maxRetries, delayMs): attempt = 1 and the loop's first test
WithRetry(maxRetries, delayMs) ==
    /\ rPc = "idle"
    /\ rArgs' = [maxRetries |-> maxRetries, delayMs |-> delayMs]
    /\ rAttempt' = 1
    /\ rPc' = LoopTest(1, maxRetries)
    /\ rOut' = IF rPc' = "raised" THEN [rOut EXCEPT !.outcome = "raised"] ELSE rOut
    /\ UNCHANGED <<rTrace, storeVars, verifyVars, collectVars, hashVars, titleVars, overlapVars, pipeVars>>

\* await fn() resolves: withRetry returns the value
FnResolves(value) ==
    /\ rPc = "attempt"
    /\ rTrace' = Append(rTrace, FnEvent(rAttempt, value))
    /\ rOut' = [rOut EXCEPT !.outcome = "returned", !.value = value]
    /\ rPc' = "returned"
    /\ UNCHANGED <<rArgs, rAttempt, storeVars, verifyVars, collectVars, hashVars, titleVars, overlapVars, pipeVars>>

\* await fn() rejects: the catch block keeps the error and starts the sleep
\* when attempts remain; without a sleep the loop goes on at once
FnRejects(err) ==
    /\ rPc = "attempt"
    /\ LET after == AfterFailure(rAttempt, rArgs.maxRetries, rArgs.delayMs)
           called == Append(rTrace, FnEvent(rAttempt, "threw"))
       IN  IF after.next = "sleep"
           THEN /\ rPc' = "sleep"
                /\ rTrace' = Append(called, SleepEvent(after.delay))
                /\ rOut' = [rOut EXCEPT !.lastError = AsError(err)]
                /\ UNCHANGED rAttempt
           ELSE /\ rAttempt' = rAttempt + 1
                /\ rPc' = LoopTest(rAttempt', rArgs.maxRetries)
                /\ rTrace' = called
                /\ rOut' = [rOut EXCEPT !.lastError = AsError(err),
                                        !.outcome = IF rPc' = "raised" THEN "raised" ELSE @]
    /\ UNCHANGED <<rArgs, storeVars, verifyVars, collectVars, hashVars, titleVars, overlapVars, pipeVars>>

\* the sleep's timer fires: attempt++ and the loop's test
SleepEnds ==
    /\ rPc = "sleep"
    /\ rAttempt' = rAttempt + 1
    /\ rPc' = LoopTest(rAttempt', rArgs.maxRetries)
    /\ rOut' = IF rPc' = "raised" THEN [rOut EXCEPT !.outcome = "raised"] ELSE rOut
    /\ UNCHANGED <<rArgs, rTrace, storeVars, verifyVars, collectVars, hashVars, titleVars, overlapVars, pipeVars>>

RetryNext ==
    \/ \E n \in 1..RetryLimit, d \in RetryDelays : WithRetry(n, d)
    \/ \E value \in FnValues : FnResolves(value)
    \/ \E err \in FnThrown : FnRejects(err)
    \/ SleepEnds

----------------------------------------------------------------------------
(* The verifier: services/verifier.ts *)

\* The evaluator's response text is a sequence of tokens: prose, "[", "]",
\* the JSON value null, and JSON objects with their index, verdict and reason
\* (index 0: no index that is the number of a position; verdict "": none).
Token(kind, index, verdict, reason) ==
    [kind |-> kind, index |-> index, verdict |-> verdict, reason |-> reason]

Prose == Token("prose", 0, "", "")

LBracket == Token("[", 0, "", "")

RBracket == Token("]", 0, "", "")

JsonNull == Token("null", 0, "", "")

Entry(index, verdict, reason) == Token("object", index, verdict, reason)

\* the longest item sequence passed to verifyNews
MaxVerify == 2

\* the most elements in the evaluator's array
MaxEntries == 2

\* the objects the evaluator may put in its array: a verdict with a reason,
\* PASS, a verdict in another case, a word that is no verdict, and an object
\* without a verdict
Entries ==
    { Entry(i, v, "clickbait") : i \in 1..MaxVerify, v \in {"FAIL", "UNCERTAIN"} }
    \cup { Entry(i, v, "") : i \in 1..MaxVerify, v \in {"PASS", "fail", "MAYBE", ""} }

\* "[" body "]"
ArrayText(body) == <<LBracket>> \o body \o <<RBracket>>

\* the evaluator's response texts: no array; a bare array of objects and
\* nulls; an array holding stray prose; an array wrapped in prose; an array
\* after prose that itself holds brackets, and one before such prose; an
\* array between a stray "]" and a stray "["
ResponseTexts ==
    { <<>>, <<Prose>>, ArrayText(<<Prose>>) }
    \cup { ArrayText(body) : body \in SeqsUpTo(Entries \cup {JsonNull}, MaxEntries) }
    \cup { <<Prose>> \o ArrayText(body) \o <<Prose>> :
             body \in SeqsUpTo(Entries \cup {JsonNull}, 1) }
    \cup { ArrayText(<<Prose>>) \o <<Prose>> \o ArrayText(body) :
             body \in SeqsUpTo(Entries, 1) }
    \cup { ArrayText(body) \o <<Prose>> \o ArrayText(<<Prose>>) :
             body \in SeqsUpTo(Entries, 1) }
    \cup { <<Prose, RBracket>> \o ArrayText(body) \o <<LBracket, Prose>> :
             body \in SeqsUpTo(Entries, 1) }

\* the item sequences verifyNews is called with: no item twice
VerifyBatches ==
    { items \in SeqsUpTo(ItemPool, MaxVerify) :
        \A i, j \in 1..Len(items) : items[i] = items[j] => i = j }

PassVerdict == [verdict |-> "PASS", reason |-> ""]

\* Array(expectedCount).fill({ verdict: 'PASS', reason: '' })
AllPass(expectedCount) == [i \in 1..expectedCount |-> PassVerdict]

\* the index of the last "]" of the text, or 0
LastRBracket(text) ==
    IF \E i \in 1..Len(text) : text[i] = RBracket
    THEN CHOOSE i \in 1..Len(text) :
           text[i] = RBracket /\ \A j \in (i + 1)..Len(text) : text[j] # RBracket
    ELSE 0

\* text.match(/\[[\s\S]*\]/): from the first "[" to the last "]" after it
JsonMatch(text) ==
    LET first == IndexOf(text, LBracket)
        lst   == LastRBracket(text)
    IN  IF first < lst THEN SubSeq(text, first, lst) ELSE <<>>

\* the bracket depth after the k-th token
Depth(span, k) ==
    Cardinality({ j \in 1..k : span[j] = LBracket })
    - Cardinality({ j \in 1..k : span[j] = RBracket })

\* JSON.parse accepts the span: one array, closed by the last token, holding
\* nothing but JSON values
JsonParses(span) ==
    /\ span # <<>>
    /\ \A k \in 1..(Len(span) - 1) : Depth(span, k) >= 1
    /\ Depth(span, Len(span)) = 0
    /\ \A k \in 1..Len(span) : span[k] # Prose

\* the elements of the parsed array that are objects or null, in order
Elements(span) ==
    LET ks == { k \in 1..Len(span) :
                  span[k].kind \in {"object", "null"} /\ Depth(span, k) = 1 }
        RECURSIVE walk(_)
        walk(k) ==
            IF k > Len(span) THEN <<>>
            ELSE (IF k \in ks THEN <<span[k]>> ELSE <<>>) \o walk(k + 1)
    IN  walk(1)

\* item.verdict || 'PASS', item.reason || ''
VerdictOf(e) ==
    [verdict |-> IF e.verdict = "" THEN "PASS" ELSE e.verdict, reason |-> e.reason]

\* indexed.get(i): the value the last element with index i set, or none
Indexed(elems, i) ==
    LET ks == { k \in 1..Len(elems) : elems[k].index = i }
    IN  IF ks = {} THEN PassVerdict
        ELSE VerdictOf(elems[CHOOSE k \in ks : \A j \in ks : j <= k])

\* parseResponse(text, expectedCount)
parseResponse(text, expectedCount) ==
    LET span  == JsonMatch(text)
        elems == Elements(span)
    IN  IF span = <<>> THEN AllPass(expectedCount)
        ELSE IF ~JsonParses(span) THEN AllPass(expectedCount)
        ELSE IF \E k \in 1..Len(elems) : elems[k] = JsonNull
             THEN AllPass(expectedCount)
        ELSE [i \in 1..expectedCount |-> Indexed(elems, i)]

\* verificationNote: undefined, or a string as the sequence of its parts
NoNote == [present |-> FALSE, text |-> <<>>]

Note(text) == [present |-> TRUE, text |-> text]

\* the template `<warning sign> Unverified: ${reason}`
WarningSign == "(warning sign)"

UncertainNote(reason) == <<WarningSign, " Unverified: ", reason>>

FallbackNote == "Excluded: verification unavailable, non-Tier 1 source"

\* VerifiedNewsItem: { ...item, isVerified, verificationNote }
Verified(item, isVerified, note) ==
    [title |-> item.title, url |-> item.url, source |-> item.source,
     category |-> item.category, publishedAt |-> item.publishedAt,
     isVerified |-> isVerified, verificationNote |-> note]

\* the map with the verdict compared in any letter case
ApplyVerdictAnyCase(item, verdict) ==
    IF verdict.verdict \in {"FAIL", "fail"}
    THEN Verified(item, FALSE, Note(<<verdict.reason>>))
    ELSE IF verdict.verdict = "UNCERTAIN"
         THEN Verified(item, TRUE, Note(UncertainNote(verdict.reason)))
         ELSE Verified(item, TRUE, NoNote)

\* callAI's map of the items over the verdicts (lines 81-90)
ApplyVerdict(item, verdict) ==
    IF verdict.verdict = "FAIL"
    THEN Verified(item, FALSE, Note(<<verdict.reason>>))
    ELSE IF verdict.verdict = "UNCERTAIN"
         THEN Verified(item, TRUE, Note(UncertainNote(verdict.reason)))
         ELSE Verified(item, TRUE, NoNote)

\* callAI(items) when the evaluator answers with text
callAI(items, text) ==
    LET verdicts == parseResponse(text, Len(items))
    IN  [i \in 1..Len(items) |-> ApplyVerdict(items[i], verdicts[i])]

\* config.ts TIER_1_SOURCES
TIER_1_SOURCES ==
    << <<"R", "e", "u", "t", "e", "r", "s">>,
       <<"B", "B", "C">>,
       <<"B", "B", "C", " ", "W", "o", "r", "l", "d">>,
       <<"M", "o", "n", "e", "y", "c", "o", "n", "t", "r", "o", "l">>,
       <<"C", "o", "i", "n", "D", "e", "s", "k">>,
       <<"E", "c", "o", "n", "o", "m", "i", "c", " ", "T", "i", "m", "e", "s">>,
       <<"L", "i", "v", "e", "M", "i", "n", "t">>,
       <<"A", "l", " ", "J", "a", "z", "e", "e", "r", "a">> >>

\* String.prototype.includes
Includes(hay, needle) ==
    \E k \in 0..(Len(hay) - Len(needle)) : SubSeq(hay, k + 1, k + Len(needle)) = needle

\* the allow-list test without the toLowerCase calls
IsTier1CaseSensitive(source) ==
    \E n \in 1..Len(TIER_1_SOURCES) : Includes(source, TIER_1_SOURCES[n])

\* TIER_1_SOURCES.some(src => item.source.toLowerCase().includes(src.toLowerCase()))
IsTier1(source) ==
    \E n \in 1..Len(TIER_1_SOURCES) :
        Includes(ToLowerCase(source), ToLowerCase(TIER_1_SOURCES[n]))

\* a fallback that filters the items instead of mapping them
fallbackKeepsTier1Only(items) ==
    LET kept == SelectSeq(items, LAMBDA item : IsTier1(item.source))
    IN  [i \in 1..Len(kept) |-> Verified(kept[i], TRUE, NoNote)]

\* fallbackVerification(items)
fallbackVerification(items) ==
    [i \in 1..Len(items) |->
        Verified(items[i], IsTier1(items[i].source),
                 IF IsTier1(items[i].source) THEN NoNote ELSE Note(<<FallbackNote>>))]

\* verifyNews without its catch block: withRetry's error leaves verifyNews
VerifyCatchRaises(items) ==
    [outcome |-> "raised", path |-> "none", result |-> <<>>]

\* verifyNews' catch block: log, then the fallback's result is returned
VerifyCatch(items) ==
    [outcome |-> "returned", path |-> "fallback", result |-> fallbackVerification(items)]

NoVerifyResult == [outcome |-> "none", path |-> "none", result |-> <<>>]

\* no verifyNews call has been made
VerifyInit ==
    /\ vItems = <<>>
    /\ vPc = "idle"
    /\ vAttempt = 0
    /\ vCalls = 0
    /\ vFailed = 0
    /\ vSleeps = <<>>
    /\ vText = <<>>
    /\ vOut = NoVerifyResult

\* verifyNews without its first line: withRetry's first attempt for any items
VerifyNewsWithoutShortCircuit(items) ==
    /\ vPc = "idle"
    /\ vItems' = items
    /\ vPc' = "attempt"
    /\ vAttempt' = 1
    /\ UNCHANGED <<vOut, vCalls, vFailed, vSleeps, vText, storeVars, collectVars, helperVars, pipeVars>>

\* verifyNews(items): [] for no items, else withRetry's first attempt
VerifyNews(items) ==
    /\ vPc = "idle"
    /\ vItems' = items
    /\ IF items = <<>>
       THEN /\ vPc' = "done"
            /\ vOut' = [outcome |-> "returned", path |-> "empty", result |-> <<>>]
            /\ UNCHANGED vAttempt
       ELSE /\ vPc' = "attempt"
            /\ vAttempt' = 1
            /\ UNCHANGED vOut
    /\ UNCHANGED <<vCalls, vFailed, vSleeps, vText, storeVars, collectVars, helperVars, pipeVars>>

\* the attempt's callAI gets the evaluator's text: withRetry returns its result
EvaluatorAnswers(text) ==
    /\ vPc = "attempt"
    /\ vCalls' = vCalls + 1
    /\ vText' = text
    /\ vOut' = [outcome |-> "returned", path |-> "evaluator", result |-> callAI(vItems, text)]
    /\ vPc' = "done"
    /\ UNCHANGED <<vItems, vAttempt, vFailed, vSleeps, storeVars, collectVars, helperVars, pipeVars>>

\* the attempt's callAI throws: withRetry sleeps before the next attempt, or
\* throws into verifyNews' catch block
EvaluatorFails ==
    /\ vPc = "attempt"
    /\ vCalls' = vCalls + 1
    /\ vFailed' = vFailed + 1
    /\ LET after == AfterFailure(vAttempt, VerifyMaxRetries, VerifyDelayMs)
       IN  IF after.next = "sleep"
           THEN /\ vPc' = "sleep"
                /\ vSleeps' = Append(vSleeps, after.delay)
                /\ UNCHANGED vOut
           ELSE /\ vPc' = "done"
                /\ vOut' = VerifyCatch(vItems)
                /\ UNCHANGED vSleeps
    /\ UNCHANGED <<vItems, vAttempt, vText, storeVars, collectVars, helperVars, pipeVars>>

\* the sleep ends: the loop's next attempt
Wake ==
    /\ vPc = "sleep"
    /\ vPc' = "attempt"
    /\ vAttempt' = vAttempt + 1
    /\ UNCHANGED <<vItems, vCalls, vFailed, vSleeps, vText, vOut, storeVars, collectVars, helperVars, pipeVars>>

VerifyNext ==
    \/ \E items \in VerifyBatches : VerifyNews(items)
    \/ \E text \in ResponseTexts : EvaluatorAnswers(text)
    \/ EvaluatorFails
    \/ Wake

----------------------------------------------------------------------------
(* The collectors: collectCryptoNews, collectIndianStockNews,              *)
(* collectGeopoliticalNews                                                 *)

\* the items an adapter's feed holds
FeedLen == 3

\* A promise handed to Promise.allSettled: its withRetry label, whether it
\* is the price or quote fetch or a news adapter, whether it returns [] at
\* once when NEWS_API_KEY is not set, and the source name of its items.
Adapter(label, kind, needsKey, source) ==
    [label |-> label, kind |-> kind, needsKey |-> needsKey, source |-> source]

Publisher == <<"R", "e", "u", "t", "e", "r", "s">>

NewsApiSource == <<"N", "e", "w", "s", "A", "P", "I">>

\* collectCryptoNews: the array passed to Promise.allSettled
CryptoAdapters ==
    << Adapter("CoinGecko BTC price", "price", FALSE, <<>>),
       Adapter("CryptoCompare news", "news", FALSE,
               <<"C", "r", "y", "p", "t", "o", "C", "o", "m", "p", "a", "r", "e">>),
       Adapter("RSS CoinDesk", "news", FALSE, <<"C", "o", "i", "n", "D", "e", "s", "k">>),
       Adapter("RSS CoinTelegraph", "news", FALSE,
               <<"C", "o", "i", "n", "T", "e", "l", "e", "g", "r", "a", "p", "h">>),
       Adapter("Google News Crypto", "news", FALSE, Publisher) >>

\* collectIndianStockNews: fetchStockQuotes, then fetchTasks
StockAdapters ==
    << Adapter("Yahoo Finance quotes", "price", FALSE, <<>>),
       Adapter("Google News: TCS stock news", "news", FALSE, Publisher),
       Adapter("Google News: CDSL stock news", "news", FALSE, Publisher),
       Adapter("Google News: HUL Hindustan Unilever stock", "news", FALSE, Publisher),
       Adapter("Google News: Gold price India", "news", FALSE, Publisher),
       Adapter("Google News: Indian stock market today", "news", FALSE, Publisher),
       Adapter("NewsAPI stocks", "news", TRUE, NewsApiSource),
       Adapter("RSS Moneycontrol", "news", FALSE,
               <<"M", "o", "n", "e", "y", "c", "o", "n", "t", "r", "o", "l">>),
       Adapter("RSS Economic Times", "news", FALSE,
               <<"E", "c", "o", "n", "o", "m", "i", "c", " ", "T", "i", "m", "e", "s">>),
       Adapter("RSS LiveMint", "news", FALSE, <<"L", "i", "v", "e", "M", "i", "n", "t">>) >>

\* collectGeopoliticalNews: the array passed to Promise.allSettled
GeoAdapters ==
    << Adapter("RSS BBC World", "news", FALSE,
               <<"B", "B", "C", " ", "W", "o", "r", "l", "d">>),
       Adapter("RSS Al Jazeera", "news", FALSE,
               <<"A", "l", " ", "J", "a", "z", "e", "e", "r", "a">>),
       Adapter("Google News: world news today international", "news", FALSE, Publisher),
       Adapter("Google News: geopolitics trade war sanctions", "news", FALSE, Publisher),
       Adapter("NewsAPI geopolitical", "news", TRUE, NewsApiSource) >>

Adapters(cat) ==
    IF cat = "crypto" THEN CryptoAdapters
    ELSE IF cat = "indian-stocks" THEN StockAdapters
    ELSE GeoAdapters

\* the error-list prefixes of the price or quote fetch and of a news adapter
ErrorPrefix(cat, kind) ==
    IF cat = "crypto"
    THEN (IF kind = "price" THEN "BTC price fetch failed: " ELSE "Crypto news source failed: ")
    ELSE IF cat = "indian-stocks"
         THEN (IF kind = "price" THEN "Stock quotes failed: " ELSE "Market news source failed: ")
         ELSE "Geopolitical news source failed: "

\* the reason of a rejected adapter: the last error its request threw
RequestError == "Error: request failed"

\* withRetry's `throw lastError` after the last attempt: the error of that
\* attempt as fn threw it; the label goes into the warn log line only
ThrownByWithRetry(label, lastError) == lastError

Digits == <<"1", "2", "3", "4", "5", "6", "7", "8", "9">>

\* The feed adapter k answers with: item j is titled by the adapter's letter
\* and j; the first item of an even adapter repeats the first title of the
\* adapter before it in another case and spacing; dates repeat and some
\* items have none, some a date before 1970.
FeedTitle(k, j) ==
    IF j = 1 /\ k % 2 = 0
    THEN <<UpperChars[k - 1], " ", " ", Digits[j], " ">>
    ELSE <<LowerChars[k], " ", Digits[j]>>

\* getTime() of a pubDate before 1970
BeforeEpoch == -2

FeedDate(k, j) ==
    LET v == (k + 2 * j) % 5
    IN  IF v = 0 THEN NoDate ELSE IF v = 4 THEN BeforeEpoch ELSE v

Feed(cat, k) ==
    [j \in 1..FeedLen |->
        NewsItem(FeedTitle(k, j), <<"https:", "//feeds.example/", LowerChars[k], Digits[j]>>,
                 Adapters(cat)[k].source, cat, FeedDate(k, j))]

\* fetchNewsApi*: [] at once when NEWS_API_KEY is not set
SkipsWithoutKey(cat, k, key) == Adapters(cat)[k].needsKey /\ ~key

\* the value of a fulfilled news adapter
AdapterValue(cat, k, key) == IF SkipsWithoutKey(cat, k, key) THEN <<>> ELSE Feed(cat, k)

\* the loop over the settled results that collects the news, cut at the
\* first rejected adapter
RECURSIVE allNewsUntilRejected(_, _, _, _)
allNewsUntilRejected(cat, tasks, key, k) ==
    IF k > Len(tasks) THEN <<>>
    ELSE IF tasks[k] = "rejected" THEN <<>>
    ELSE (IF Adapters(cat)[k].kind = "news" THEN AdapterValue(cat, k, key) ELSE <<>>)
         \o allNewsUntilRejected(cat, tasks, key, k + 1)

\* the loop over the settled results: allNews.push(...result.value) of the
\* fulfilled news adapters from the k-th on, in order
RECURSIVE allNews(_, _, _, _)
allNews(cat, tasks, key, k) ==
    IF k > Len(tasks) THEN <<>>
    ELSE (IF Adapters(cat)[k].kind = "news" /\ tasks[k] = "fulfilled"
          THEN AdapterValue(cat, k, key) ELSE <<>>)
         \o allNews(cat, tasks, key, k + 1)

\* the errors pushed for the rejected adapters from the k-th on, in order
RECURSIVE errorsOf(_, _, _)
errorsOf(cat, tasks, k) ==
    IF k > Len(tasks) THEN <<>>
    ELSE (IF tasks[k] = "rejected"
          THEN << <<ErrorPrefix(cat, Adapters(cat)[k].kind),
                     ThrownByWithRetry(Adapters(cat)[k].label, RequestError)>> >>
          ELSE <<>>)
         \o errorsOf(cat, tasks, k + 1)

\* a fold that keeps the last item of every normalized title
RECURSIVE deduplicateKeepsLast(_)
deduplicateKeepsLast(items) ==
    IF items = <<>> THEN <<>>
    ELSE LET rest == Tail(items)
             item == Head(items)
         IN  IF \E j \in 1..Len(rest) :
                    normalizeTitle(rest[j].title) = normalizeTitle(item.title)
             THEN deduplicateKeepsLast(rest)
             ELSE <<item>> \o deduplicateKeepsLast(rest)

\* deduplicateByTitle: keep the first item of every normalized title
RECURSIVE deduplicateByTitle(_)
deduplicateByTitle(items) ==
    IF items = <<>> THEN <<>>
    ELSE LET front == SubSeq(items, 1, Len(items) - 1)
             item  == items[Len(items)]
         IN  IF \E j \in 1..Len(front) :
                    normalizeTitle(front[j].title) = normalizeTitle(item.title)
             THEN deduplicateByTitle(front)
             ELSE Append(deduplicateByTitle(front), item)

\* a.publishedAt?.getTime() || 0
DateKey(item) == IF item.publishedAt = NoDate THEN 0 ELSE item.publishedAt

\* the list left in merge order
SortSkipped(items) == items

\* unique.sort((a, b) => dateB - dateA): descending by date, stable
RECURSIVE SortByDate(_)
SortByDate(items) ==
    IF items = <<>> THEN <<>>
    ELSE LET sorted == SortByDate(SubSeq(items, 1, Len(items) - 1))
             item   == items[Len(items)]
             pos    == Cardinality({ i \in 1..Len(sorted) : DateKey(sorted[i]) >= DateKey(item) })
         IN  SubSeq(sorted, 1, pos) \o <<item>> \o SubSeq(sorted, pos + 1, Len(sorted))

\* Array.prototype.slice(0, n)
Slice(items, n) == SubSeq(items, 1, IF n < Len(items) THEN n ELSE Len(items))

CryptoCap == 8

GeoCap == 8

WeekendCap == 5

WeekdayCap == 10

\* the cap of the news list
MaxNews(cat, weekend) ==
    IF cat = "crypto" THEN CryptoCap
    ELSE IF cat = "geopolitical" THEN GeoCap
    ELSE IF weekend THEN WeekendCap ELSE WeekdayCap

\* Instants and timezone offsets are counted in half hours; an instant is
\* the time since a Monday 00:00 UTC.
HalfHoursPerDay == 48

\* 5.5 * 60 * 60 * 1000 ms
IstShift == 11

\* Date.prototype.getDay of the process's local fields of an instant, for a
\* process whose getTimezoneOffset() is offset: 0 is Sunday, 6 is Saturday
GetDay(instant, offset) == (((instant - offset) \div HalfHoursPerDay) + 1) % 7

\* the instant moved by the process's offset only, without the shift to
\* India's time
getISTDateUnshifted(clock) == clock.utc + clock.offset

\* getISTDate: new Date(now.getTime() + now.getTimezoneOffset() * 60000 + 5.5 h)
getISTDate(clock) == clock.utc + clock.offset + IstShift

\* isWeekendIndia: day === 0 || day === 6 of getISTDate().getDay()
isWeekendIndia(clock) == GetDay(getISTDate(clock), clock.offset) \in {0, 6}

\* The instants a collector is called at and the timezone offset of its
\* process: Friday 18:00 UTC on a UTC host (23:30 in India), Friday 18:30
\* UTC on a host in India (Saturday 00:00 there), Sunday 18:00 UTC on a host
\* five hours west of UTC (Sunday 23:30 in India), Sunday 18:30 UTC on a UTC
\* host (Monday 00:00 in India).
Clocks ==
    { [utc |-> 4 * HalfHoursPerDay + 36, offset |-> 0],
      [utc |-> 4 * HalfHoursPerDay + 37, offset |-> -11],
      [utc |-> 6 * HalfHoursPerDay + 36, offset |-> 10],
      [utc |-> 6 * HalfHoursPerDay + 37, offset |-> 0] }

NoClock == [utc |-> 0, offset |-> 0]

NoCollection ==
    [outcome |-> "none", fetched |-> FALSE, merged |-> <<>>, news |-> <<>>, errors |-> <<>>]

\* no collector has been called
CollectInit ==
    /\ cCat = "none"
    /\ cWeekend = FALSE
    /\ cClock = NoClock
    /\ cKey = FALSE
    /\ cTasks = <<>>
    /\ cOut = NoCollection

\* a collector is called: it starts all its adapters; only the market
\* collector reads the clock, through isWeekendIndia(), only the market and
\* geopolitical ones have an adapter that reads NEWS_API_KEY
Collect(cat, clock, key) ==
    /\ cCat = "none"
    /\ cat # "indian-stocks" => clock = NoClock
    /\ cat = "indian-stocks" => clock # NoClock
    /\ cat = "crypto" => ~key
    /\ cCat' = cat
    /\ cClock' = clock
    /\ cWeekend' = IF cat = "indian-stocks" THEN isWeekendIndia(clock) ELSE FALSE
    /\ cKey' = key
    /\ cTasks' = [k \in 1..Len(Adapters(cat)) |->
                    IF SkipsWithoutKey(cat, k, key) THEN "fulfilled" ELSE "pending"]
    /\ UNCHANGED <<cOut, storeVars, verifyVars, helperVars, pipeVars>>

\* adapter k's withRetry returns a value
AdapterFulfils(k) ==
    /\ k \in 1..Len(cTasks)
    /\ cTasks[k] = "pending"
    /\ cTasks' = [cTasks EXCEPT ![k] = "fulfilled"]
    /\ UNCHANGED <<cCat, cWeekend, cClock, cKey, cOut, storeVars, verifyVars, helperVars, pipeVars>>

\* adapter k's withRetry throws its last error
AdapterRejects(k) ==
    /\ k \in 1..Len(cTasks)
    /\ cTasks[k] = "pending"
    /\ cTasks' = [cTasks EXCEPT ![k] = "rejected"]
    /\ UNCHANGED <<cCat, cWeekend, cClock, cKey, cOut, storeVars, verifyVars, helperVars, pipeVars>>

\* Promise.allSettled has resolved: the rest of the collector
CollectorReturns ==
    /\ cCat # "none"
    /\ cOut.outcome = "none"
    /\ \A k \in 1..Len(cTasks) : cTasks[k] # "pending"
    /\ LET merged == allNews(cCat, cTasks, cKey, 1)
           unique == SortByDate(deduplicateByTitle(merged))
       IN  cOut' = [outcome |-> "returned",
                    fetched |-> Adapters(cCat)[1].kind = "price" /\ cTasks[1] = "fulfilled",
                    merged  |-> merged,
                    news    |-> Slice(unique, MaxNews(cCat, cWeekend)),
                    errors  |-> errorsOf(cCat, cTasks, 1)]
    /\ UNCHANGED <<cCat, cWeekend, cClock, cKey, cTasks, storeVars, verifyVars, helperVars, pipeVars>>

\* the positions of the longest array passed to Promise.allSettled
AdapterSlots == 1..Len(StockAdapters)

CollectNext ==
    \/ \E cat \in Categories, clock \in Clocks \cup {NoClock}, key \in BOOLEAN :
          Collect(cat, clock, key)
    \/ \E k \in AdapterSlots : AdapterFulfils(k)
    \/ \E k \in AdapterSlots : AdapterRejects(k)
    \/ CollectorReturns

----------------------------------------------------------------------------
(* The sender: TelegramSender.sendNewsBulletin                             *)

\* A message is a sequence of lines; a line has a kind, the item it shows
\* (for the lines of formatNewsList), its length in characters, the number
\* of spaces it starts with and the number it names (for the note on the
\* data sources).
NoLineItem == [title |-> <<>>]

Line(kind, item, chars, indent) ==
    [kind |-> kind, item |-> item, chars |-> chars, indent |-> indent, count |-> 0]

\* the empty line between two "\n"
Blank == Line("blank", NoLineItem, 0, 0)

\* the lengths of the fixed lines
FixedChars(kind) ==
    CASE kind = "header"       -> 49
      [] kind = "rule"         -> 24
      [] kind = "footer"       -> 32
      [] kind = "crypto title" -> 16
      [] kind = "btc price"    -> 18
      [] kind = "market title" -> 24
      [] kind = "market open"  -> 40
      [] kind = "quote"        -> 40
      [] kind = "geo title"    -> 21
      [] kind = "no crypto"    -> 41
      [] kind = "no market"    -> 41
      [] kind = "no geo"       -> 47

Fixed(kind) == Line(kind, NoLineItem, FixedChars(kind), 0)

\* const TELEGRAM_MAX_LENGTH = 4096
TELEGRAM_MAX_LENGTH == 4096

\* truncate(item.title, 150)
TitleLimit == 150

\* the length of a text of the model: a URL chunk counts 10 characters, the
\* long paths what their names say, a title or source its characters
RECURSIVE UrlChars(_)
UrlChars(url) ==
    IF url = <<>> THEN 0
    ELSE (IF Head(url) \in {LongPath, LongPathToo} THEN 2000
          ELSE IF Head(url) = HugePath THEN 4100 ELSE 10) + UrlChars(Tail(url))

\* truncate(text, maxLength).length
TruncatedChars(text, maxLength) == IF Len(text) <= maxLength THEN Len(text) ELSE maxLength

\* verificationNote.startsWith(warning sign)
ShowsNote(item) ==
    /\ item.verificationNote.present
    /\ item.verificationNote.text # <<>>
    /\ Head(item.verificationNote.text) = WarningSign

\* formatNewsList: for the i-th item the link line `${i}. <a href="url">title</a>`,
\* the source line and, for a note that starts with the warning sign, the
\* note line; an empty line between two items
RECURSIVE formatNewsList(_, _)
formatNewsList(items, i) ==
    IF i > Len(items) THEN <<>>
    ELSE LET item == items[i]
         IN  (IF i > 1 THEN <<Blank>> ELSE <<>>)
             \o << Line("link", item,
                        (IF i < 10 THEN 1 ELSE 2) + 11 + UrlChars(item.url) + 2
                            + TruncatedChars(item.title, TitleLimit) + 4, 0),
                   Line("source", item, 6 + Len(item.source) + 4, 3) >>
             \o (IF ShowsNote(item) THEN <<Line("note", item, 3 + 40, 3)>> ELSE <<>>)
             \o formatNewsList(items, i + 1)

\* no filter: every item of the list
VerifiedOnlyKeepsAll(news) == news

\* news.filter(n => n.isVerified)
VerifiedOnly(news) == SelectSeq(news, LAMBDA n : n.isVerified)

\* the section limits: verified.slice(0, 5), slice(0, 10), slice(0, 5)
CryptoShown == 5

MarketShown == 10

GeoShown == 5

\* buildCryptoSection
buildCryptoSection(news) ==
    LET verified == VerifiedOnly(news)
    IN  <<Fixed("crypto title"), Blank, Fixed("btc price"), Blank>>
        \o (IF verified # <<>> THEN formatNewsList(Slice(verified, CryptoShown), 1)
            ELSE <<Fixed("no crypto")>>)

\* getIndianMarketStatus() on a Saturday or Sunday: isWeekend is true
MarketStatusWeekend == "market status (weekend)"

\* buildStockSection: html ends with "\n\n", an empty last line, when there
\* is neither a list nor the "no news" line
buildStockSection(quotes, news, marketStatus) ==
    LET verified == VerifiedOnly(news)
    IN  <<Fixed("rule"), Fixed("market title"), Blank, Fixed("market open"), Blank>>
        \o (IF quotes # <<>>
            THEN [q \in 1..Len(quotes) |-> Fixed("quote")] \o <<Blank>>
            ELSE <<>>)
        \o (IF verified # <<>> THEN formatNewsList(Slice(verified, MarketShown), 1)
            ELSE IF marketStatus # MarketStatusWeekend THEN <<Fixed("no market")>>
            ELSE <<Blank>>)

\* buildGeopoliticalSection
buildGeopoliticalSection(news) ==
    LET verified == VerifiedOnly(news)
    IN  <<Fixed("rule"), Fixed("geo title"), Blank>>
        \o (IF verified # <<>> THEN formatNewsList(Slice(verified, GeoShown), 1)
            ELSE <<Fixed("no geo")>>)

buildHeader == <<Fixed("header"), Fixed("rule")>>

buildFooter == <<Fixed("rule"), Fixed("footer")>>

\* String.prototype.length of the lines joined by "\n"
RECURSIVE SumChars(_)
SumChars(lines) == IF lines = <<>> THEN 0 ELSE Head(lines).chars + SumChars(Tail(lines))

TextLength(lines) == IF lines = <<>> THEN 0 ELSE SumChars(lines) + Len(lines) - 1

\* a + '\n\n' + b
JoinBlank(a, b) == a \o <<Blank>> \o b

\* String.prototype.trim on a text of lines: the empty lines at both ends
\* and the spaces the first line starts with go
RECURSIVE DropBlankStart(_)
DropBlankStart(lines) ==
    IF lines = <<>> THEN <<>>
    ELSE IF Head(lines).kind = "blank" THEN DropBlankStart(Tail(lines)) ELSE lines

RECURSIVE DropBlankEnd(_)
DropBlankEnd(lines) ==
    IF lines = <<>> THEN <<>>
    ELSE IF lines[Len(lines)].kind = "blank"
         THEN DropBlankEnd(SubSeq(lines, 1, Len(lines) - 1)) ELSE lines

TrimLines(lines) ==
    LET inner == DropBlankEnd(DropBlankStart(lines))
    IN  IF inner = <<>> THEN <<>>
        ELSE <<[Head(inner) EXCEPT !.chars = @ - Head(inner).indent, !.indent = 0]>>
             \o Tail(inner)

\* splitAtLines: the loop over the lines from the k-th on; current is the
\* text collected for the next chunk, "" being no line at all
RECURSIVE splitAtLines(_, _, _)
splitAtLines(lines, k, current) ==
    IF k > Len(lines)
    THEN (IF TrimLines(current) # <<>> THEN <<TrimLines(current)>> ELSE <<>>)
    ELSE IF TextLength(current) + lines[k].chars + 1 > TELEGRAM_MAX_LENGTH
         THEN (IF TextLength(current) > 0 THEN <<TrimLines(current)>> ELSE <<>>)
              \o splitAtLines(lines, k + 1,
                              IF lines[k].kind = "blank" THEN <<>> ELSE <<lines[k]>>)
         ELSE splitAtLines(lines, k + 1,
                           IF TextLength(current) = 0 /\ lines[k].kind = "blank"
                           THEN <<>>
                           ELSE (IF TextLength(current) = 0 THEN <<>> ELSE current)
                                \o <<lines[k]>>)

\* the messages of the sections sent one by one (lines 39-58), from the k-th
RECURSIVE SectionMessages(_, _)
SectionMessages(sections, k) ==
    IF k > Len(sections) THEN <<>>
    ELSE (IF TrimLines(sections[k]) = <<>> THEN <<>>
          ELSE IF TextLength(sections[k]) <= TELEGRAM_MAX_LENGTH THEN <<sections[k]>>
          ELSE splitAtLines(sections[k], 1, <<>>))
         \o SectionMessages(sections, k + 1)

\* lines 29-58: the texts sendNewsBulletin passes to sendHtml for the
\* bulletin, in order
BulletinMessages(args) ==
    LET header == buildHeader
        crypto == buildCryptoSection(args.cryptoNews)
        stock  == buildStockSection(args.stockQuotes, args.stockNews, args.marketStatus)
        geo    == buildGeopoliticalSection(args.geopoliticalNews)
        footer == buildFooter
        full   == JoinBlank(header, JoinBlank(crypto, JoinBlank(stock, JoinBlank(geo, footer))))
    IN  IF TextLength(full) <= TELEGRAM_MAX_LENGTH THEN <<full>>
        ELSE SectionMessages(<<JoinBlank(header, crypto), stock, JoinBlank(geo, footer)>>, 1)

\* `<i>Note: ${errors.length} data source(s) had issues.</i>`
IssuesNote(n) == <<[Line("issues", NoLineItem, 45, 0) EXCEPT !.count = n]>>

\* no sendNewsBulletin call
NoArgs ==
    [called |-> FALSE, cryptoPrice |-> 0, cryptoNews |-> <<>>, stockQuotes |-> <<>>,
     stockNews |-> <<>>, geopoliticalNews |-> <<>>, marketStatus |-> "", errors |-> <<>>]

SendInit ==
    /\ sPc = "idle"
    /\ sArgs = NoArgs
    /\ sQueue = <<>>
    /\ sSent = <<>>

\* sendNewsBulletin is called (lines 20-37): the texts are built and the
\* first sendHtml is awaited
CallSendNewsBulletin(args) ==
    /\ sPc' = "bulletin"
    /\ sArgs' = args
    /\ sQueue' = BulletinMessages(args)
    /\ sSent' = <<>>

\* the caller has got sendNewsBulletin's result or exception: the call and
\* its locals are gone
SendNewsBulletinOver ==
    /\ sPc' = "idle"
    /\ sArgs' = NoArgs
    /\ sQueue' = <<>>
    /\ sSent' = <<>>

\* bot.api.sendMessage accepts a text of the bulletin (lines 37, 48, 52):
\* the next one is sent; after the last, the note when errors has entries
SendHtmlReturns ==
    /\ sPc = "bulletin"
    /\ sQueue # <<>>
    /\ sSent' = Append(sSent, Head(sQueue))
    /\ sQueue' = Tail(sQueue)
    /\ sPc' = IF Tail(sQueue) # <<>> THEN "bulletin"
              ELSE IF Len(sArgs.errors) > 0 THEN "note" ELSE "returned"
    /\ UNCHANGED <<sArgs, storeVars, verifyVars, collectVars, helperVars, runVars>>

\* bot.api.sendMessage rejects a text of the bulletin: sendNewsBulletin throws
SendHtmlThrows ==
    /\ sPc = "bulletin"
    /\ sQueue # <<>>
    /\ sPc' = "raised"
    /\ UNCHANGED <<sArgs, sQueue, sSent, storeVars, verifyVars, collectVars, helperVars, runVars>>

\* the note's sendHtml without the try block: its exception leaves
\* sendNewsBulletin
NoteSettlesUncaught(ok) ==
    /\ sPc = "note"
    /\ sSent' = IF ok THEN Append(sSent, IssuesNote(Len(sArgs.errors))) ELSE sSent
    /\ sPc' = IF ok THEN "returned" ELSE "raised"
    /\ UNCHANGED <<sArgs, sQueue, storeVars, verifyVars, collectVars, helperVars, runVars>>

\* the note's sendHtml settles (lines 61-67): its exception is caught and
\* ignored, sendNewsBulletin returns
NoteSettles(ok) ==
    /\ sPc = "note"
    /\ sSent' = IF ok THEN Append(sSent, IssuesNote(Len(sArgs.errors))) ELSE sSent
    /\ sPc' = "returned"
    /\ UNCHANGED <<sArgs, sQueue, storeVars, verifyVars, collectVars, helperVars, runVars>>

\* The arguments sendNewsBulletin is called with, within what the
\* collectors can deliver (at most 8 crypto, 10 market and 8 geopolitical
\* items): item i of a list is verified or not, has a short URL, a long or a
\* huge one, and a note when the evaluator was uncertain.
SendItem(cat, i, isVerified, path, note) ==
    Verified(NewsItem(<<LowerChars[i]>>, <<"https:", path, LowerChars[i]>>, Publisher, cat, NoDate),
             isVerified, note)

ShortPath == "//x.com/"

SendNote == Note(UncertainNote("single source"))

\* eight items, six of them verified: the second and the seventh are not
EightItems(cat) ==
    [i \in 1..8 |-> SendItem(cat, i, i \notin {2, 7}, ShortPath,
                             IF i = 3 THEN SendNote
                             ELSE IF i \in {2, 7} THEN Note(<<"clickbait">>) ELSE NoNote)]

\* ten items, all verified but the second
TenItems(cat) ==
    [i \in 1..10 |-> SendItem(cat, i, i # 2, ShortPath,
                              IF i = 2 THEN Note(<<FallbackNote>>) ELSE NoNote)]

\* three verified items with long URLs: a section too long for one message
LongItems(cat) == [i \in 1..3 |-> SendItem(cat, i, TRUE, LongPath, NoNote)]

\* two items, the verified one with a URL longer than a message
HugeItems(cat) ==
    << SendItem(cat, 1, TRUE, HugePath, NoNote), SendItem(cat, 2, FALSE, ShortPath, Note(<<"clickbait">>)) >>

\* two items, none verified
UnverifiedItems(cat) ==
    [i \in 1..2 |-> SendItem(cat, i, FALSE, ShortPath, Note(<<FallbackNote>>))]

SendErrors ==
    { <<>>,
      << <<"Crypto news source failed: ", RequestError>>,
         <<"Stock collector crashed: ", "Error: stocks">> >> }

SendArgs ==
    { [called           |-> TRUE,
       cryptoPrice      |-> price,
       cryptoNews       |-> cryptoNews,
       stockQuotes      |-> quotes,
       stockNews        |-> stockNews,
       geopoliticalNews |-> geoNews,
       marketStatus     |-> status,
       errors           |-> errors] :
        price \in {0, 1},
        cryptoNews \in { <<>>, EightItems("crypto"), LongItems("crypto"), HugeItems("crypto") },
        quotes \in { <<>>, <<"NIFTY">> },
        stockNews \in { <<>>, TenItems("indian-stocks"), UnverifiedItems("indian-stocks") },
        geoNews \in { <<>>, EightItems("geopolitical"), LongItems("geopolitical") },
        status \in { "market status", MarketStatusWeekend },
        errors \in SendErrors }

\* sendNewsBulletin is called
SendNewsBulletin(args) ==
    /\ sPc = "idle"
    /\ CallSendNewsBulletin(args)
    /\ UNCHANGED <<storeVars, verifyVars, collectVars, helperVars, runVars>>

SendNext ==
    \/ \E args \in SendArgs : SendNewsBulletin(args)
    \/ SendHtmlReturns
    \/ SendHtmlThrows
    \/ \E ok \in BOOLEAN : NoteSettles(ok)

----------------------------------------------------------------------------
(* The orchestrator: main and runNewsPipeline                              *)

\* the pipeline runs of one process
MaxRuns == 2

\* dedup.cleanup(7)
RetentionDays == 7

\* the order of the collectors in Promise.allSettled, of the filterNew calls
\* and of the spreads
CategoryOrder == <<"crypto", "indian-stocks", "geopolitical">>

\* a collector's promise: pending, rejected with a reason, or fulfilled with
\* the collector's value (news, errors, the crypto price, the stock quotes)
CollectorPromise(status, reason, news, errors, price, quotes) ==
    [status |-> status, reason |-> reason, news |-> news, errors |-> errors,
     price |-> price, quotes |-> quotes]

Pending == CollectorPromise("pending", "", <<>>, <<>>, 0, <<>>)

Rejected(reason) == CollectorPromise("rejected", reason, <<>>, <<>>, 0, <<>>)

Fulfilled(news, errors, price, quotes) ==
    CollectorPromise("fulfilled", "", news, errors, price, quotes)

\* an error string a collector pushes for a rejected adapter:
\* `Crypto news source failed: ${result.reason}`
AdapterError(prefix, reason) == <<prefix, reason>>

\* how each collector's promise can settle
CollectorOutcomes(cat) ==
    CASE cat = "crypto" ->
           { Rejected("Error: crypto"),
             Fulfilled(CryptoNews, <<>>, 1, <<>>),
             Fulfilled(<<>>, <<AdapterError("Crypto news source failed: ", "Error: timeout")>>, 0, <<>>) }
      [] cat = "indian-stocks" ->
           { Rejected("Error: stocks"),
             Fulfilled(StockNews, <<>>, 0, <<"NIFTY">>),
             Fulfilled(<<>>, <<AdapterError("Stock quotes failed: ", "Error: 429"),
                         AdapterError("Market news source failed: ", "Error: timeout")>>,
                       0, <<>>) }
      [] cat = "geopolitical" ->
           { Rejected("Error: geo"),
             Fulfilled(GeoNews, <<AdapterError("Geopolitical news source failed: ", "Error: 500")>>, 0, <<>>),
             Fulfilled(<<>>, <<>>, 0, <<>>) }

CrashPrefix(cat) ==
    CASE cat = "crypto"        -> "Crypto collector crashed: "
      [] cat = "indian-stocks" -> "Stock collector crashed: "
      [] cat = "geopolitical"  -> "Geopolitical collector crashed: "

\* a replacement that gives up every collector's value when one has crashed
CollectedAbortsSiblings(cat, results) ==
    IF \A c \in Categories : results[c].status = "fulfilled"
    THEN [news   |-> results[cat].news,  errors |-> results[cat].errors,
          price  |-> results[cat].price, quotes |-> results[cat].quotes]
    ELSE [news   |-> <<>>,
          errors |-> IF results[cat].status = "fulfilled" THEN <<>>
                     ELSE << <<CrashPrefix(cat), results[cat].reason>> >>,
          price  |-> 0, quotes |-> <<>>]

\* lines 246-256: the collector's value, or for a rejected promise no news,
\* no price, no quotes and the one error '<Category> collector crashed: ' + reason
Collected(cat, results) ==
    IF results[cat].status = "fulfilled"
    THEN [news   |-> results[cat].news,  errors |-> results[cat].errors,
          price  |-> results[cat].price, quotes |-> results[cat].quotes]
    ELSE [news   |-> <<>>,
          errors |-> << <<CrashPrefix(cat), results[cat].reason>> >>,
          price  |-> 0, quotes |-> <<>>]

\* the spread in the opposite order
FlattenReversed(byCat) ==
    byCat[CategoryOrder[3]] \o byCat[CategoryOrder[2]] \o byCat[CategoryOrder[1]]

\* [...crypto, ...stocks, ...geopolitical]
Flatten(byCat) ==
    byCat[CategoryOrder[1]] \o byCat[CategoryOrder[2]] \o byCat[CategoryOrder[3]]

\* the three lines with every filterNew in a try block that ignores the
\* exception of save()
RECURSIVE DedupFromSwallows(_, _, _, _)
DedupFromSwallows(k, acc, news, ws) ==
    IF k > Len(CategoryOrder) THEN acc
    ELSE LET cat == CategoryOrder[k]
         IN  IF news[cat] = <<>> THEN DedupFromSwallows(k + 1, acc, news, ws)
             ELSE LET done == FilterLoop(news[cat],
                                         [rows |-> acc.rows, newItems |-> <<>>], now)
                  IN  DedupFromSwallows(k + 1,
                          [rows   |-> done.rows,
                           file   |-> FileAfterSaveOn(acc.file, done.rows, ws[k]),
                           new    |-> [acc.new EXCEPT ![cat] = done.newItems],
                           passed |-> Append(acc.passed, news[cat]),
                           saves  |-> Append(acc.saves, ws[k]),
                           seen   |-> acc.seen \cup HashesOf(done.newItems),
                           raised |-> FALSE],
                          news, ws)

\* lines 270-272: filterNew for the k-th category and the ones after it, called
\* for a category only when it has news; the call's save has outcome ws[k],
\* and a save that fails raises out of the three lines
RECURSIVE DedupFrom(_, _, _, _)
DedupFrom(k, acc, news, ws) ==
    IF k > Len(CategoryOrder) \/ acc.raised THEN acc
    ELSE LET cat == CategoryOrder[k]
         IN  IF news[cat] = <<>> THEN DedupFrom(k + 1, acc, news, ws)
             ELSE LET done == FilterLoop(news[cat],
                                         [rows |-> acc.rows, newItems |-> <<>>], now)
                  IN  DedupFrom(k + 1,
                          [rows   |-> done.rows,
                           file   |-> FileAfterSaveOn(acc.file, done.rows, ws[k]),
                           new    |-> IF ws[k] = "written"
                                      THEN [acc.new EXCEPT ![cat] = done.newItems]
                                      ELSE acc.new,
                           passed |-> Append(acc.passed, news[cat]),
                           saves  |-> Append(acc.saves, ws[k]),
                           seen   |-> acc.seen \cup HashesOf(done.newItems),
                           raised |-> ws[k] # "written"],
                          news, ws)

\* getIndianMarketStatus(): read from the clock, not from the run
MarketStatus == "market status"

NoPayload ==
    [called |-> FALSE, cryptoPrice |-> 0, cryptoNews |-> <<>>, stockQuotes |-> <<>>,
     stockNews |-> <<>>, geopoliticalNews |-> <<>>, marketStatus |-> "", errors |-> <<>>]

\* the arguments without the split: every verified item in the crypto section
BulletinUnsplit(collected, verifiedItems, allErrors) ==
    [called           |-> TRUE,
     cryptoPrice      |-> collected["crypto"].price,
     cryptoNews       |-> verifiedItems,
     stockQuotes      |-> collected["indian-stocks"].quotes,
     stockNews        |-> <<>>,
     geopoliticalNews |-> <<>>,
     marketStatus     |-> MarketStatus,
     errors           |-> allErrors]

\* lines 286-309: the arguments of sendNewsBulletin
Bulletin(collected, verifiedItems, allErrors) ==
    [called           |-> TRUE,
     cryptoPrice      |-> collected["crypto"].price,
     cryptoNews       |-> SelectSeq(verifiedItems, LAMBDA i : i.category = "crypto"),
     stockQuotes      |-> collected["indian-stocks"].quotes,
     stockNews        |-> SelectSeq(verifiedItems, LAMBDA i : i.category = "indian-stocks"),
     geopoliticalNews |-> SelectSeq(verifiedItems, LAMBDA i : i.category = "geopolitical"),
     marketStatus     |-> MarketStatus,
     errors           |-> allErrors]

\* the evaluator's answers in a run: no array; FAIL for the first item; FAIL
\* for the first and UNCERTAIN for the third
PipeTexts ==
    { <<>>,
      ArrayText(<<Entry(1, "FAIL", "clickbait")>>),
      ArrayText(<<Entry(1, "FAIL", "clickbait"), Entry(3, "UNCERTAIN", "clickbait")>>) }

\* the time between two triggers: none to speak of, or more than the
\* retention window
Elapsed == {0, (RetentionDays + 1) * TicksPerDay}

NoStart == [hashes |-> {}]

NoPrev == [completed |-> FALSE, emptyStart |-> FALSE, news |-> [c \in Categories |-> <<>>]]

\* the process has not run main yet; lastSuccessfulSend is null
PipeInit ==
    /\ pPc = "start"
    /\ pRun = 0
    /\ pIn = [c \in Categories |-> Pending]
    /\ pStart = NoStart
    /\ pErrors = <<>>
    /\ pPassed = <<>>
    /\ pNew = [c \in Categories |-> <<>>]
    /\ pVerify = <<>>
    /\ pVerified = <<>>
    /\ pPayload = NoPayload
    /\ pSend = [bulletin |-> "none", notice |-> "none", lastSuccessfulSend |-> NoDate]
    /\ pRaised = "none"
    /\ pPrev = NoPrev
    /\ pSaves = <<>>
    /\ pSeen = {}

\* main(): await dedup.initialize(), whose exception ends the process; then
\* the cron schedules wait for their triggers
Main(w) ==
    /\ pPc = "start"
    /\ db' = "open"
    /\ rows' = IF file.exists THEN file.rows ELSE {}
    /\ file' = FileAfterSave(rows', w)
    /\ pPc' = IF w = "written" THEN "idle" ELSE "exited"
    /\ UNCHANGED <<now, last, live, stopped, verifyVars, collectVars, helperVars,
                   pRun, pIn, pStart, pErrors, pPassed, pNew, pVerify, pVerified,
                   pPayload, pSend, pRaised, pPrev, pSaves, pSeen, sendVars>>

\* a cron trigger calls runNewsPipeline, elapsed ticks after the last one:
\* the three collectors are started (lines 233-244); the run's locals are fresh
StartRun(elapsed) ==
    /\ pPc = "idle"
    /\ pRun < MaxRuns
    /\ elapsed > 0 => now < MaxTime
    /\ now' = now + elapsed
    /\ pRun' = pRun + 1
    /\ pPc' = "collecting"
    /\ pIn' = [c \in Categories |-> Pending]
    /\ pStart' = [hashes |-> { r.hash : r \in rows }]
    /\ pPrev' = IF pRun > 0 /\ pRaised = "none" /\ pSend.bulletin = "sent"
                THEN [completed  |-> TRUE,
                      emptyStart |-> pStart.hashes = {},
                      news       |-> [c \in Categories |-> Collected(c, pIn).news]]
                ELSE NoPrev
    /\ pErrors' = <<>>
    /\ pPassed' = <<>>
    /\ pNew' = [c \in Categories |-> <<>>]
    /\ pVerify' = <<>>
    /\ pVerified' = <<>>
    /\ pPayload' = NoPayload
    /\ pSend' = [pSend EXCEPT !.bulletin = "none", !.notice = "none"]
    /\ pRaised' = "none"
    /\ vItems' = <<>>
    /\ vPc' = "idle"
    /\ vAttempt' = 0
    /\ vCalls' = 0
    /\ vFailed' = 0
    /\ vSleeps' = <<>>
    /\ vText' = <<>>
    /\ vOut' = NoVerifyResult
    /\ pSaves' = <<>>
    /\ UNCHANGED <<db, rows, file, last, live, stopped, collectVars, helperVars, pSeen, sendVars>>

\* one collector's promise settles
CollectorSettles(cat, result) ==
    /\ pPc = "collecting"
    /\ pIn[cat].status = "pending"
    /\ pIn' = [pIn EXCEPT ![cat] = result]
    /\ UNCHANGED <<storeVars, verifyVars, collectVars, helperVars,
                   pPc, pRun, pStart, pErrors, pPassed, pNew, pVerify, pVerified,
                   pPayload, pSend, pRaised, pPrev, pSaves, pSeen, sendVars>>

\* Promise.allSettled resolves (lines 246-283): crashed collectors are
\* replaced, the errors joined, filterNew called for each category that has
\* news; then verifyNews is called with the new items, or, when there are
\* none, sendNewsBulletin with no verified items (lines 286-309); an
\* exception of filterNew goes to the catch block, which calls sendHtml
CollectorsSettled(ws) ==
    /\ pPc = "collecting"
    /\ \A c \in Categories : pIn[c].status # "pending"
    /\ LET collected  == [c \in Categories |-> Collected(c, pIn)]
           allErrors  == Flatten([c \in Categories |-> collected[c].errors])
           dd         == DedupFrom(1,
                             [rows |-> rows, file |-> file,
                              new |-> [c \in Categories |-> <<>>],
                              passed |-> <<>>, saves |-> <<>>, seen |-> {},
                              raised |-> FALSE],
                             [c \in Categories |-> collected[c].news], ws)
           allNewNews == Flatten(dd.new)
       IN  /\ pErrors' = allErrors
           /\ rows' = dd.rows
           /\ file' = dd.file
           /\ pPassed' = dd.passed
           /\ pNew' = dd.new
           /\ pSaves' = dd.saves
           /\ pSeen' = pSeen \cup dd.seen
           /\ IF dd.raised
              THEN /\ pRaised' = "dedup"
                   /\ pPc' = "notice"
                   /\ UNCHANGED <<pVerify, pPayload, verifyVars, sendVars>>
              ELSE IF allNewNews # <<>>
                   THEN /\ pVerify' = Append(pVerify, allNewNews)
                        /\ pPc' = "verifying"
                        /\ vItems' = allNewNews
                        /\ vPc' = "attempt"
                        /\ vAttempt' = 1
                        /\ UNCHANGED <<pRaised, pPayload, vCalls, vFailed, vSleeps, vText, vOut,
                                       sendVars>>
                   ELSE /\ pPayload' = Bulletin(collected, <<>>, allErrors)
                        /\ pPc' = "handoff"
                        /\ CallSendNewsBulletin(pPayload')
                        /\ UNCHANGED <<pRaised, pVerify, verifyVars>>
    /\ UNCHANGED <<db, now, last, live, stopped, collectVars, helperVars,
                   pRun, pIn, pStart, pVerified, pSend, pPrev>>

\* verifyNews returns (lines 280-309): the verified items are split by
\* category and sendNewsBulletin is called
VerifyNewsReturns ==
    /\ pPc = "verifying"
    /\ vPc = "done"
    /\ pVerified' = vOut.result
    /\ pPayload' = Bulletin([c \in Categories |-> Collected(c, pIn)], vOut.result, pErrors)
    /\ pPc' = "handoff"
    /\ CallSendNewsBulletin(pPayload')
    /\ UNCHANGED <<storeVars, verifyVars, collectVars, helperVars,
                   pRun, pIn, pStart, pErrors, pPassed, pNew, pVerify, pSend, pRaised, pPrev,
                   pSaves, pSeen>>

\* sendNewsBulletin returns (lines 311-327): lastSuccessfulSend is set and
\* dedup.cleanup(7) is called, whose save has outcome w; when it raises, the
\* catch block calls sendHtml
SendNewsBulletinReturns(w) ==
    /\ pPc = "handoff"
    /\ sPc = "returned"
    /\ pSend' = [pSend EXCEPT !.bulletin = "sent", !.lastSuccessfulSend = now]
    /\ rows' = rows \ ExpiredRows(rows, now, RetentionDays)
    /\ file' = FileAfterSave(rows', w)
    /\ pSaves' = Append(pSaves, w)
    /\ pSeen' = pSeen \ { r.hash : r \in ExpiredRows(rows, now, RetentionDays) }
    /\ SendNewsBulletinOver
    /\ IF w = "written"
       THEN /\ pPc' = "idle"
            /\ UNCHANGED pRaised
       ELSE /\ pPc' = "notice"
            /\ pRaised' = "maintenance"
    /\ UNCHANGED <<db, now, last, live, stopped, verifyVars, collectVars, helperVars,
                   pRun, pIn, pStart, pErrors, pPassed, pNew, pVerify, pVerified,
                   pPayload, pPrev>>

\* a catch block that takes the run's new records out of the table again
SendNewsBulletinFailsForgets ==
    /\ pPc = "handoff"
    /\ sPc = "raised"
    /\ pSend' = [pSend EXCEPT !.bulletin = "failed"]
    /\ pRaised' = "handoff"
    /\ pPc' = "notice"
    /\ rows' = { r \in rows : r.hash \in pStart.hashes }
    /\ SendNewsBulletinOver
    /\ UNCHANGED <<db, file, now, last, live, stopped, verifyVars, collectVars, helperVars,
                   pRun, pIn, pStart, pErrors, pPassed, pNew, pVerify, pVerified,
                   pPayload, pPrev, pSaves, pSeen>>

\* a run whose cleanup sits in a finally block: it runs after a failed
\* handoff as well
SendNewsBulletinFailsThenCleans ==
    /\ pPc = "handoff"
    /\ sPc = "raised"
    /\ pSend' = [pSend EXCEPT !.bulletin = "failed"]
    /\ pRaised' = "handoff"
    /\ pPc' = "notice"
    /\ rows' = rows \ ExpiredRows(rows, now, RetentionDays)
    /\ file' = FileAfterSave(rows', "written")
    /\ pSaves' = Append(pSaves, "written")
    /\ pSeen' = pSeen \ { r.hash : r \in ExpiredRows(rows, now, RetentionDays) }
    /\ SendNewsBulletinOver
    /\ UNCHANGED <<db, now, last, live, stopped, verifyVars, collectVars, helperVars,
                   pRun, pIn, pStart, pErrors, pPassed, pNew, pVerify, pVerified,
                   pPayload, pPrev>>

\* sendNewsBulletin throws (lines 318-323): the catch block calls sendHtml
SendNewsBulletinFails ==
    /\ pPc = "handoff"
    /\ sPc = "raised"
    /\ pSend' = [pSend EXCEPT !.bulletin = "failed"]
    /\ pRaised' = "handoff"
    /\ pPc' = "notice"
    /\ SendNewsBulletinOver
    /\ UNCHANGED <<storeVars, verifyVars, collectVars, helperVars,
                   pRun, pIn, pStart, pErrors, pPassed, pNew, pVerify, pVerified,
                   pPayload, pPrev, pSaves, pSeen>>

\* the catch block's sendHtml settles (lines 320-327): its failure is logged
\* and the run's promise resolves
SendHtmlSettles(ok) ==
    /\ pPc = "notice"
    /\ pSend' = [pSend EXCEPT !.notice = IF ok THEN "sent" ELSE "failed"]
    /\ pPc' = "idle"
    /\ UNCHANGED <<storeVars, verifyVars, collectVars, helperVars,
                   pRun, pIn, pStart, pErrors, pPassed, pNew, pVerify, pVerified,
                   pPayload, pRaised, pPrev, pSaves, pSeen, sendVars>>

SaveOutcomes == [1..Len(CategoryOrder) -> WriteOutcomes]

PipeNext ==
    \/ \E w \in WriteOutcomes : Main(w)
    \/ \E elapsed \in Elapsed : StartRun(elapsed)
    \/ \E cat \in Categories : \E result \in CollectorOutcomes(cat) : CollectorSettles(cat, result)
    \/ \E ws \in SaveOutcomes : CollectorsSettled(ws)
    \/ \E text \in PipeTexts : EvaluatorAnswers(text)
    \/ EvaluatorFails
    \/ Wake
    \/ VerifyNewsReturns
    \/ SendHtmlReturns
    \/ SendHtmlThrows
    \/ \E ok \in BOOLEAN : NoteSettles(ok)
    \/ \E w \in WriteOutcomes : SendNewsBulletinReturns(w)
    \/ SendNewsBulletinFails
    \/ \E ok \in BOOLEAN : SendHtmlSettles(ok)

----------------------------------------------------------------------------
(* Two runs in flight at once: the cron callbacks of main call              *)
(* runNewsPipeline whether or not an earlier run has resolved              *)

\* the two schedules of main, each the trigger of one run
Triggers == {"morning", "evening"}

NoRun == [pc |-> "idle", news |-> [c \in Categories |-> <<>>], new |-> [c \in Categories |-> <<>>]]

\* no schedule has fired
OverlapInit == oRuns = [t \in Triggers |-> NoRun]

\* a schedule fires (lines 353-363): runNewsPipeline is called and awaits
\* its collectors, whatever the other run is doing
Trigger(t) ==
    /\ pPc = "idle"
    /\ oRuns[t].pc = "idle"
    /\ oRuns' = [oRuns EXCEPT ![t].pc = "collecting"]
    /\ UNCHANGED <<storeVars, verifyVars, collectVars, hashVars, retryVars, titleVars, pipeVars>>

\* the step of a run whose database is its own: the items are filtered
\* against an empty table
RunCollectorsSettledOnOwnTable(t, results, ws) ==
    /\ oRuns[t].pc = "collecting"
    /\ LET news == [c \in Categories |-> Collected(c, results).news]
           dd   == DedupFrom(1,
                       [rows |-> {}, file |-> file,
                        new |-> [c \in Categories |-> <<>>],
                        passed |-> <<>>, saves |-> <<>>, seen |-> {},
                        raised |-> FALSE],
                       news, ws)
       IN  /\ rows' = rows \cup dd.rows
           /\ file' = dd.file
           /\ oRuns' = [oRuns EXCEPT
                          ![t].news = news,
                          ![t].new  = dd.new,
                          ![t].pc   = IF dd.raised THEN "notice"
                                      ELSE IF Flatten(dd.new) # <<>> THEN "verifying"
                                      ELSE "handoff"]
    /\ UNCHANGED <<db, now, last, live, stopped, verifyVars, collectVars, hashVars,
                   retryVars, titleVars, pipeVars>>

\* Promise.allSettled of a run resolves (lines 246-283): the lines up to the
\* next await run without a break, the three filterNew calls among them;
\* then the run awaits verifyNews, or sendNewsBulletin when nothing is new,
\* or the error notice when a save raised
RunCollectorsSettled(t, results, ws) ==
    /\ oRuns[t].pc = "collecting"
    /\ LET news == [c \in Categories |-> Collected(c, results).news]
           dd   == DedupFrom(1,
                       [rows |-> rows, file |-> file,
                        new |-> [c \in Categories |-> <<>>],
                        passed |-> <<>>, saves |-> <<>>, seen |-> {},
                        raised |-> FALSE],
                       news, ws)
       IN  /\ rows' = dd.rows
           /\ file' = dd.file
           /\ oRuns' = [oRuns EXCEPT
                          ![t].news = news,
                          ![t].new  = dd.new,
                          ![t].pc   = IF dd.raised THEN "notice"
                                      ELSE IF Flatten(dd.new) # <<>> THEN "verifying"
                                      ELSE "handoff"]
    /\ UNCHANGED <<db, now, last, live, stopped, verifyVars, collectVars, hashVars,
                   retryVars, titleVars, pipeVars>>

\* verifyNews of a run returns (lines 280-309): sendNewsBulletin is awaited
RunVerifyNewsReturns(t) ==
    /\ oRuns[t].pc = "verifying"
    /\ oRuns' = [oRuns EXCEPT ![t].pc = "handoff"]
    /\ UNCHANGED <<storeVars, verifyVars, collectVars, hashVars, retryVars, titleVars, pipeVars>>

\* sendNewsBulletin of a run returns (lines 311-317): cleanup(7), whose save
\* has outcome w
RunSendNewsBulletinReturns(t, w) ==
    /\ oRuns[t].pc = "handoff"
    /\ rows' = rows \ ExpiredRows(rows, now, RetentionDays)
    /\ file' = FileAfterSave(rows', w)
    /\ oRuns' = [oRuns EXCEPT ![t].pc = IF w = "written" THEN "done" ELSE "notice"]
    /\ UNCHANGED <<db, now, last, live, stopped, verifyVars, collectVars, hashVars,
                   retryVars, titleVars, pipeVars>>

\* sendNewsBulletin of a run throws (lines 318-323)
RunSendNewsBulletinFails(t) ==
    /\ oRuns[t].pc = "handoff"
    /\ oRuns' = [oRuns EXCEPT ![t].pc = "notice"]
    /\ UNCHANGED <<storeVars, verifyVars, collectVars, hashVars, retryVars, titleVars, pipeVars>>

\* the error notice of a run settles (lines 320-327): the run's promise
\* resolves
RunSendHtmlSettles(t) ==
    /\ oRuns[t].pc = "notice"
    /\ oRuns' = [oRuns EXCEPT ![t].pc = "done"]
    /\ UNCHANGED <<storeVars, verifyVars, collectVars, hashVars, retryVars, titleVars, pipeVars>>

\* how the three collectors of a run can have settled
CollectorResults ==
    { results \in [Categories -> UNION { CollectorOutcomes(c) : c \in Categories }] :
        \A c \in Categories : results[c] \in CollectorOutcomes(c) }

OverlapNext ==
    \/ \E w \in WriteOutcomes : Main(w)
    \/ \E t \in Triggers : Trigger(t)
    \/ \E t \in Triggers, results \in CollectorResults, ws \in SaveOutcomes :
           RunCollectorsSettled(t, results, ws)
    \/ \E t \in Triggers : RunVerifyNewsReturns(t)
    \/ \E t \in Triggers, w \in WriteOutcomes : RunSendNewsBulletinReturns(t, w)
    \/ \E t \in Triggers : RunSendNewsBulletinFails(t)
    \/ \E t \in Triggers : RunSendHtmlSettles(t)
    \/ Tick

----------------------------------------------------------------------------
(* The aggregator's headline split: utils/helpers.ts cleanGoogleNewsTitle *)

\* the characters the regular expression's "." does not match
IsLineEnd(c) == c = "\n"

\* the default outlet label
DefaultSource == <<"G", "o", "o", "g", "l", "e", " ", "N", "e", "w", "s">>

\* title.match(/^(.*)\s+-\s+([^-]+)$/): the ways the pattern fits the whole
\* title, as <<j, h, m>>: group 1 is title[1..j] and holds no line end,
\* title[j+1..h-1] is whitespace, title[h] is the hyphen, title[h+1..m] is
\* whitespace, and group 2 is title[m+1..] and holds no hyphen
TitleMatches(title) ==
    LET n == Len(title)
    IN  { t \in (0..n) \X (1..n) \X (1..n) :
            LET j == t[1]
                h == t[2]
                m == t[3]
            IN  /\ j + 1 <= h - 1
                /\ \A i \in 1..j : ~IsLineEnd(title[i])
                /\ \A i \in (j + 1)..(h - 1) : IsSpace(title[i])
                /\ title[h] = "-"
                /\ h + 1 <= m
                /\ \A i \in (h + 1)..m : IsSpace(title[i])
                /\ m + 1 <= n
                /\ \A i \in (m + 1)..n : title[i] # "-" }

\* the match the engine returns: the quantifiers are greedy, so group 1 is
\* the longest that fits, and then the whitespace after the hyphen is
TitleMatch(title) ==
    LET all  == TitleMatches(title)
        jMax == CHOOSE j \in { t[1] : t \in all } : \A t \in all : t[1] <= j
        rest == { t \in all : t[1] = jMax }
    IN  CHOOSE t \in rest : \A u \in rest : u[3] <= t[3]

\* cleanGoogleNewsTitle(title)
cleanGoogleNewsTitle(title) ==
    IF TitleMatches(title) # {}
    THEN LET t == TitleMatch(title)
         IN  [cleanTitle |-> Trim(SubSeq(title, 1, t[1])),
              source     |-> Trim(SubSeq(title, t[3] + 1, Len(title)))]
    ELSE [cleanTitle |-> title, source |-> DefaultSource]

\* the characters of the headlines: a letter, a space, a hyphen and a line
\* end
TitleChars == {"a", " ", "-", "\n"}

\* the longest of the headlines that are enumerated in full
MaxTitleLen == 5

\* the headline "a - a-a": an outlet name with a hyphen in it
HyphenatedOutlet == <<"a", " ", "-", " ", "a", "-", "a">>

\* the headline "a-a - a a": a hyphen in the headline, two words of outlet
TwoWordOutlet == <<"a", "-", "a", " ", "-", " ", "a", " ", "a">>

\* every headline of up to MaxTitleLen characters, and the two longer ones
GoogleTitles == SeqsUpTo(TitleChars, MaxTitleLen) \cup {HyphenatedOutlet, TwoWordOutlet}

NoTitleResult == [called |-> FALSE, cleanTitle |-> <<>>, source |-> <<>>]

\* cleanGoogleNewsTitle has not been called
TitleInit ==
    /\ gTitle = <<>>
    /\ gOut = NoTitleResult

\* one call of cleanGoogleNewsTitle, as the Google News adapters make it for
\* every feed item
CleanTitle(title) ==
    /\ ~gOut.called
    /\ gTitle' = title
    /\ gOut' = LET split == cleanGoogleNewsTitle(title)
               IN  [called |-> TRUE, cleanTitle |-> split.cleanTitle, source |-> split.source]
    /\ UNCHANGED <<storeVars, verifyVars, collectVars, hashVars, retryVars, overlapVars, pipeVars>>

TitleNext == \E title \in GoogleTitles : CleanTitle(title)

----------------------------------------------------------------------------
(* The content hash of two items: DeduplicationService.computeHash and
   filterNew on the two *)

NoHashes == [hashes |-> <<>>, newItems |-> <<>>, titles |-> <<>>, again |-> <<>>]

HashInit ==
    /\ hPair = <<>>
    /\ hOut = NoHashes

\* computeHash of a and of b, filterNew(<<a, b>>) on an initialized, empty
\* store, and normalizeTitle of the two titles and of its own results
HashPair(a, b) ==
    /\ hPair = <<>>
    /\ hPair' = <<a, b>>
    /\ hOut' = [hashes   |-> <<contentHash[a], contentHash[b]>>,
                newItems |-> FilterLoop(<<a, b>>, [rows |-> {}, newItems |-> <<>>], 0).newItems,
                titles   |-> <<normalizeTitle(a.title), normalizeTitle(b.title)>>,
                again    |-> <<normalizeTitle(normalizeTitle(a.title)),
                               normalizeTitle(normalizeTitle(b.title))>>]
    /\ UNCHANGED <<storeVars, verifyVars, collectVars, pipeVars, retryVars, titleVars, overlapVars>>

HashNext == \E a, b \in HashItems : HashPair(a, b)

----------------------------------------------------------------------------
(* The specifications *)

Init ==
    /\ StoreInit /\ VerifyInit /\ CollectInit /\ HashInit /\ PipeInit /\ SendInit
    /\ RetryInit /\ TitleInit /\ OverlapInit

\* the store's operations, called in any order
Spec == Init /\ [][StoreNext]_vars

\* one verifyNews call
VerifySpec == Init /\ [][VerifyNext]_vars

\* one collector call
CollectSpec == Init /\ [][CollectNext]_vars

\* the hashes of two items
HashSpec == Init /\ [][HashNext]_vars

\* one process: main, then pipeline runs one after the other
PipeSpec == Init /\ [][PipeNext]_vars

\* one sendNewsBulletin call
SendSpec == Init /\ [][SendNext]_vars

\* one withRetry call
RetrySpec == Init /\ [][RetryNext]_vars

\* one cleanGoogleNewsTitle call
TitleSpec == Init /\ [][TitleNext]_vars

\* the morning and the evening run, started in any order and at any time
OverlapSpec == Init /\ [][OverlapNext]_vars

----------------------------------------------------------------------------
(* The store's claims *)

\* the hashes of a set of rows
HashSet(rws) == { r.hash : r \in rws }

\* the items of a sequence, from the i-th on, whose hash is neither in seen
\* nor carried by an earlier item of the sequence, in their order
RECURSIVE PickNew(_, _, _)
PickNew(items, i, seen) ==
    IF i > Len(items) THEN <<>>
    ELSE (IF /\ contentHash[items[i]] \notin seen
             /\ \A j \in 1..(i - 1) : contentHash[items[j]] # contentHash[items[i]]
          THEN <<items[i]>> ELSE <<>>)
         \o PickNew(items, i + 1, seen)

\* the step is a call of store operation op
IsCall(op) == last'.op = op /\ now' = now

\* C1: on an initialized store a filterNew call that returns gives, in input
\* order, exactly the items whose hash was neither stored when the call began
\* nor carried by an earlier item of the call, and leaves a record for the
\* hash of every input item.
C1_FilterNewContract ==
    [][(db = "open" /\ IsCall("filterNew") /\ last'.outcome = "returned")
       => /\ last'.result = PickNew(last'.items, 1, HashSet(rows))
          /\ HashesOf(last'.items) \subseteq HashSet(rows')]_storeVars

\* a filterNew call on an open store that returned one of two items
C1_Witness ==
    /\ db = "open"
    /\ last.op = "filterNew" /\ last.outcome = "returned"
    /\ Len(last.items) = 2 /\ Len(last.result) = 1
    /\ HashesOf(last.items) \subseteq HashSet(rows)

\* C2: on an initialized store filterNew returns no item whose hash an
\* earlier filterNew call returned, unless cleanup removed its record in
\* between; a second call with the items of the call before returns nothing.
C2_NoRepeat ==
    [][(db = "open" /\ IsCall("filterNew") /\ last'.outcome = "returned")
       => /\ HashesOf(last'.result) \cap live = {}
          /\ (last.op = "filterNew" /\ last.items = last'.items) => last'.result = <<>>]_storeVars

\* a filterNew call was given an item an earlier call returned, and returned nothing
C2_Witness ==
    /\ db = "open"
    /\ last.op = "filterNew" /\ last.outcome = "returned"
    /\ last.items # <<>> /\ last.result = <<>>
    /\ HashesOf(last.items) \subseteq live

\* C3: the table, in memory and in the file, never holds two rows with the
\* same hash.
C3_OneRecordPerHash ==
    /\ \A r1, r2 \in rows : r1.hash = r2.hash => r1 = r2
    /\ \A r1, r2 \in file.rows : r1.hash = r2.hash => r1 = r2

\* a stored hash was submitted again at a later time, under another title
C3_Witness ==
    /\ db = "open"
    /\ last.op = "filterNew" /\ last.outcome = "returned"
    /\ \E i \in 1..Len(last.items) : \E r \in rows :
          /\ r.hash = contentHash[last.items[i]]
          /\ r.first_seen < now
          /\ r.title # last.items[i].title

\* the calls C4 is about as the claim has them: initialize, filterNew, cleanup
ReturnedFrom(call, ops) == call.op \in ops /\ call.outcome = "returned"

\* the records the file holds; no file holds none
FileRows == IF file.exists THEN file.rows ELSE {}

\* C4 as claimed: whenever initialize, filterNew or cleanup has returned, the
\* file holds exactly the rows in memory.
C4_FileHoldsMemoryAfterAnyReturn ==
    (db = "open" /\ ReturnedFrom(last, {"initialize", "filterNew", "cleanup"}))
    => FileRows = rows

\* the calls that write the file before they return: initialize, cleanup and
\* filterNew of a sequence that is not empty
Persisting(call) ==
    \/ ReturnedFrom(call, {"initialize", "cleanup"})
    \/ ReturnedFrom(call, {"filterNew"}) /\ call.items # <<>>

\* C4 amended: directly after initialize, cleanup or a filterNew call with a
\* non-empty sequence has returned on an open store, the file holds exactly
\* the rows in memory; a process stop at that point followed by initialize
\* loads the same rows; initialize with no file gives an empty store.
C4_FileHoldsMemoryAfterWrite ==
    /\ []((db = "open" /\ Persisting(last)) => (file.exists /\ file.rows = rows))
    /\ [][IsCall("initialize")
          => /\ (last.op = "stop" /\ Persisting(stopped.after)) => rows' = stopped.rows
             /\ ~file.exists => rows' = {}]_storeVars

\* the store was re-opened after a stop that followed a returned filterNew,
\* and holds the rows that call left
C4_Witness ==
    /\ db = "open"
    /\ last.op = "initialize" /\ last.outcome = "returned"
    /\ stopped.after.op = "filterNew" /\ stopped.after.result # <<>>
    /\ rows = stopped.rows /\ rows # {}

----------------------------------------------------------------------------
(* The verifier's claims *)

\* verifyNews has returned or raised on a non-empty input
VerifyDone == vPc = "done" /\ vItems # <<>>

\* the evaluator answered an attempt
AttemptSucceeded == vFailed < vCalls

\* every attempt of the evaluator failed
EveryAttemptFailed == vCalls > 0 /\ vFailed = vCalls

\* an output item is trusted and has no note
TrustedNoNote(out) == out.isVerified /\ out.verificationNote = NoNote

\* C5: for every non-empty input verifyNews returns a sequence of the
\* input's length whose i-th element has the title, url, source and category
\* of the i-th input item, whether the verdicts, the parse-failure default or
\* the allow-list fallback produced it.
C5_SameLengthSameItems ==
    VerifyDone =>
        /\ vOut.outcome = "returned"
        /\ vOut.path \in {"evaluator", "fallback"}
        /\ Len(vOut.result) = Len(vItems)
        /\ \A i \in 1..Len(vItems) :
              /\ vOut.result[i].title = vItems[i].title
              /\ vOut.result[i].url = vItems[i].url
              /\ vOut.result[i].source = vItems[i].source
              /\ vOut.result[i].category = vItems[i].category

\* two different items went through the fallback, one of them excluded by it
C5_Witness ==
    /\ VerifyDone
    /\ vOut.path = "fallback"
    /\ Len(vItems) = 2
    /\ vItems[1] # vItems[2]
    /\ \E i \in 1..2 : ~vOut.result[i].isVerified

\* the response text holds a bracketed span that parses as a JSON array
ParsesToArray(text) == JsonParses(JsonMatch(text))

\* the objects of the parsed array that carry index i, in the array's order
EntriesFor(text, i) ==
    SelectSeq(Elements(JsonMatch(text)), LAMBDA e : e.kind = "object" /\ e.index = i)

\* the array's entry for position i: the last object carrying index i
EntryFor(text, i) == EntriesFor(text, i)[Len(EntriesFor(text, i))]

HasEntry(text, i) == EntriesFor(text, i) # <<>>

\* C6: when the response parses to an array, for every input position i with
\* an entry: FAIL makes output i untrusted with the reason as its note,
\* UNCERTAIN makes it trusted with the "unverified: <reason>" note, PASS makes
\* it trusted with no note.
C6_VerdictMapping ==
    (VerifyDone /\ AttemptSucceeded /\ ParsesToArray(vText)) =>
        \A i \in 1..Len(vItems) :
            HasEntry(vText, i) =>
                LET e   == EntryFor(vText, i)
                    out == vOut.result[i]
                IN  /\ e.verdict = "FAIL" =>
                          ~out.isVerified /\ out.verificationNote = Note(<<e.reason>>)
                    /\ e.verdict = "UNCERTAIN" =>
                          out.isVerified /\ out.verificationNote = Note(UncertainNote(e.reason))
                    /\ e.verdict = "PASS" => TrustedNoNote(out)

\* C7: when the evaluator call succeeds but the text has no bracketed array
\* or does not parse, every item is trusted with no note; when the array
\* parses, an item without an entry is trusted with no note and an item with
\* an entry keeps the verdict of its entry; verification neither fails nor
\* uses the fallback.
C7_ParseDefaults ==
    (VerifyDone /\ AttemptSucceeded) =>
        /\ vOut.outcome = "returned"
        /\ vOut.path = "evaluator"
        /\ Len(vOut.result) = Len(vItems)
        /\ ~ParsesToArray(vText) =>
              \A i \in 1..Len(vItems) : TrustedNoNote(vOut.result[i])
        /\ ParsesToArray(vText) =>
              \A i \in 1..Len(vItems) :
                  IF HasEntry(vText, i)
                  THEN vOut.result[i] = ApplyVerdict(vItems[i], VerdictOf(EntryFor(vText, i)))
                  ELSE TrustedNoNote(vOut.result[i])

\* item.source contains the allow-list entry, letter case ignored
ContainsIgnoringCase(source, entry) ==
    \E k \in 0..(Len(source) - Len(entry)) :
        \A j \in 1..Len(entry) : LowerChar(source[k + j]) = LowerChar(entry[j])

OnAllowList(source) ==
    \E n \in 1..Len(TIER_1_SOURCES) : ContainsIgnoringCase(source, TIER_1_SOURCES[n])

\* C8: when every attempt of the evaluator failed, an output item is trusted
\* if and only if its source contains an allow-list entry, letter case
\* ignored; a matching item has no note, every other item has the fixed
\* "verification unavailable" note; trust and note are determined by the
\* item's source alone, and the store is not touched.
C8_FallbackByAllowList ==
    /\ []((VerifyDone /\ EveryAttemptFailed) =>
            /\ Len(vOut.result) = Len(vItems)
            /\ \A i \in 1..Len(vItems) :
                  /\ vOut.result[i].isVerified <=> OnAllowList(vItems[i].source)
                  /\ vOut.result[i].verificationNote =
                        IF OnAllowList(vItems[i].source) THEN NoNote ELSE Note(<<FallbackNote>>)
            /\ vOut.result = fallbackVerification(vItems))
    /\ [][vPc' = "done" => UNCHANGED storeVars]_vars

\* the fallback trusted "bbc news" and excluded "Some Blog"
C8_Witness ==
    /\ VerifyDone
    /\ EveryAttemptFailed
    /\ Len(vItems) = 2
    /\ vItems[1].source = <<"b", "b", "c", " ", "n", "e", "w", "s">>
    /\ vItems[2].source = <<"S", "o", "m", "e", " ", "B", "l", "o", "g">>
    /\ vOut.result[1].isVerified
    /\ ~vOut.result[2].isVerified

\* C9: verifyNews never raises; the evaluator is attempted at most twice, the
\* second time only after the first attempt failed; the verdicts are used if
\* an attempt succeeded, the allow-list fallback if and only if every attempt
\* failed.
C9_NeverRaisesTwoAttempts ==
    /\ [](/\ vOut.outcome # "raised"
          /\ vCalls <= 2
          /\ vCalls = 2 => vFailed >= 1
          /\ VerifyDone =>
                /\ vOut.outcome = "returned"
                /\ AttemptSucceeded =>
                      vOut.path = "evaluator" /\ vOut.result = callAI(vItems, vText)
                /\ vOut.path = "fallback" <=> (vCalls = 2 /\ vFailed = 2)
                /\ vOut.path = "fallback" => vOut.result = fallbackVerification(vItems))
    /\ [][vCalls' = vCalls + 1 => vFailed = vCalls]_vars

\* the second attempt succeeded after the first failed
C9_Witness ==
    /\ VerifyDone
    /\ vCalls = 2
    /\ vFailed = 1
    /\ vSleeps = <<VerifyDelayMs>>
    /\ vOut.path = "evaluator"

----------------------------------------------------------------------------
(* The collectors' claims *)

\* the adapters of the running collector that ended in the given state
Settled(status) == { k \in 1..Len(cTasks) : cTasks[k] = status }

\* the news adapters that returned their feed
Delivered ==
    { k \in Settled("fulfilled") :
        Adapters(cCat)[k].kind = "news" /\ ~SkipsWithoutKey(cCat, k, cKey) }

\* the feed of adapter k is in the merge as one run, in feed order
InMerge(k) ==
    \E at \in 0..(Len(cOut.merged) - FeedLen) :
        SubSeq(cOut.merged, at + 1, at + FeedLen) = Feed(cCat, k)

\* C10: whatever subset of a collector's adapters fails, the collector
\* returns; the items of every succeeding adapter are in the merge, the merge
\* holds nothing else, and the error list has one entry per failed adapter;
\* an adapter's failure changes no other adapter's state.
C10_AdaptersIsolated ==
    /\ [](/\ cOut.outcome \in {"none", "returned"}
          /\ cOut.outcome = "returned" =>
                /\ Settled("pending") = {}
                /\ Len(cOut.errors) = Cardinality(Settled("rejected"))
                /\ \A k \in Delivered : InMerge(k)
                /\ Len(cOut.merged) = FeedLen * Cardinality(Delivered)
                /\ cOut.fetched <=> (Adapters(cCat)[1].kind = "price" /\ 1 \in Settled("fulfilled")))
    /\ [][\A k \in 1..Len(cTasks) :
             (cTasks[k] = "pending" /\ cTasks'[k] = "rejected") =>
                 /\ \A m \in 1..Len(cTasks) : m # k => cTasks'[m] = cTasks[m]
                 /\ cOut' = cOut]_vars
    /\ [][(cOut.outcome = "none" /\ cOut'.outcome # "none") =>
             /\ cOut'.outcome = "returned"
             /\ Settled("pending") = {}]_vars

\* the market collector returned after its quote fetch and two of its news
\* adapters failed, with a feed delivered after a failed adapter
C10_Witness ==
    /\ cOut.outcome = "returned"
    /\ cCat = "indian-stocks"
    /\ cTasks[1] = "rejected"
    /\ Cardinality(Settled("rejected")) = 3
    /\ \E k \in Settled("rejected"), m \in Delivered : k > 1 /\ k < m
    /\ Len(cOut.errors) = 3
    /\ ~cOut.fetched

----------------------------------------------------------------------------
(* The orchestrator's claims *)

\* the step in which Promise.allSettled resolves and the run goes on
CollectionEnds == pPc = "collecting" /\ pPc' # "collecting"

IsRejected(cat) == pIn[cat].status = "rejected"

\* the number of error entries the category contributes
ErrorCount(cat) == IF IsRejected(cat) THEN 1 ELSE Len(pIn[cat].errors)

\* the entries of the categories before the k-th
ErrorsBefore(k) ==
    LET RECURSIVE sum(_)
        sum(j) == IF j = 0 THEN 0 ELSE ErrorCount(CategoryOrder[j]) + sum(j - 1)
    IN  sum(k - 1)

\* the k-th category's part of the error list errs
ErrorsOfCategory(errs, k) ==
    SubSeq(errs, ErrorsBefore(k) + 1, ErrorsBefore(k) + ErrorCount(CategoryOrder[k]))

\* the news of the collectors that fulfilled with news, in collector order
NewsToFilter ==
    LET RECURSIVE from(_)
        from(k) ==
            IF k > Len(CategoryOrder) THEN <<>>
            ELSE (IF ~IsRejected(CategoryOrder[k]) /\ pIn[CategoryOrder[k]].news # <<>>
                  THEN <<pIn[CategoryOrder[k]].news>> ELSE <<>>) \o from(k + 1)
    IN  from(1)

IsPrefix(s, t) == Len(s) <= Len(t) /\ SubSeq(t, 1, Len(s)) = s

\* C11: when Promise.allSettled resolves, a rejected collector contributes
\* no news and exactly one error entry, which carries its reason; a fulfilled
\* collector's errors and news are used as they are (filterNew gets the news
\* of every fulfilled collector that has some, up to a filterNew call that
\* raises); and unless filterNew raises, the run goes on to verification
\* or to the handoff.
C11_CrashedCollectorReplaced ==
    [][CollectionEnds =>
        /\ Len(pErrors') = ErrorsBefore(Len(CategoryOrder) + 1)
        /\ \A k \in 1..Len(CategoryOrder) :
              LET cat  == CategoryOrder[k]
                  part == ErrorsOfCategory(pErrors', k)
              IN  IF IsRejected(cat)
                  THEN /\ Len(part) = 1
                       /\ part[1][Len(part[1])] = pIn[cat].reason
                       /\ pNew'[cat] = <<>>
                  ELSE part = pIn[cat].errors
        /\ IsPrefix(pPassed', NewsToFilter)
        /\ pRaised' = "none" =>
              /\ pPassed' = NewsToFilter
              /\ pPc' \in {"verifying", "handoff"}]_vars

\* a run with a crashed crypto collector hands off the other two collectors'
\* news and two errors
C11_Witness ==
    /\ pPc = "handoff"
    /\ IsRejected("crypto")
    /\ pPayload.cryptoNews = <<>>
    /\ pPayload.stockNews # <<>>
    /\ pPayload.geopoliticalNews # <<>>
    /\ Len(pPayload.errors) = 2

\* the run's promise has resolved
RunEnded == pPc = "idle" /\ pRun > 0

\* C12: a run in which an exception reached the catch block ends with the
\* error notice attempted and with no bulletin delivered.
C12_RaisedRunEndsUndelivered ==
    (RunEnded /\ pRaised # "none") =>
        /\ pSend.notice \in {"sent", "failed"}
        /\ pSend.bulletin # "sent"

\* the part of C12 that does not depend on the stage: a run that raised
\* ends with the notice attempted once, whether or not it was delivered
C12_NoticeAttempted ==
    (RunEnded /\ pRaised # "none") => pSend.notice \in {"sent", "failed"}

\* C13: once sendNewsBulletin has returned, the run sends no error notice
\* and is not a failed run, whatever cleanup does.
C13_CleanupFailureOnlyLogged ==
    pSend.bulletin = "sent" =>
        /\ pPc # "notice"
        /\ pSend.notice = "none"
        /\ pRaised = "none"

\* the NewsItem a verified item was made from
ItemOf(v) == NewsItem(v.title, v.url, v.source, v.category, v.publishedAt)

PayloadNews(cat) ==
    CASE cat = "crypto"        -> pPayload.cryptoNews
      [] cat = "indian-stocks" -> pPayload.stockNews
      [] cat = "geopolitical"  -> pPayload.geopoliticalNews

\* the positions of the verified batch that carry the category
PositionsOf(cat) == { i \in 1..Len(pVerified) : pVerified[i].category = cat }

\* the j-th smallest number of S
Nth(S, j) == CHOOSE i \in S : Cardinality({ h \in S : h < i }) = j - 1

\* C14: in the payload, the sequence of a category holds exactly the
\* verified items that carry the category, in the order of the verified
\* batch; the verified items carry the category of the batch items; each
\* sequence matches, item by item, what filterNew returned for the category
\* in this run, and no hash stored at the start of the run is handed off.
C14_PayloadSplitByCategory ==
    pPayload.called =>
        /\ \A i \in 1..Len(pVerified) : pVerified[i].category = pVerify[1][i].category
        /\ \A cat \in Categories :
              /\ Len(PayloadNews(cat)) = Cardinality(PositionsOf(cat))
              /\ Len(PayloadNews(cat)) = Len(pNew[cat])
              /\ \A j \in 1..Len(PayloadNews(cat)) :
                    /\ PayloadNews(cat)[j] = pVerified[Nth(PositionsOf(cat), j)]
                    /\ ItemOf(PayloadNews(cat)[j]) = pNew[cat][j]
                    /\ pNew[cat][j] \in { pIn[cat].news[n] : n \in 1..Len(pIn[cat].news) }
                    /\ pNew[cat][j].category = cat
                    /\ contentHash[pNew[cat][j]] \notin pStart.hashes

\* a run on a store that holds the geopolitical item hands off the two
\* crypto items and no geopolitical item
C14_Witness ==
    /\ pPayload.called
    /\ pStart.hashes # {}
    /\ pIn["geopolitical"].news # <<>>
    /\ pPayload.geopoliticalNews = <<>>
    /\ Len(pPayload.cryptoNews) = 2

\* the run is past the three filterNew lines
PastCollection == pPc \in {"verifying", "handoff", "notice"} \/ RunEnded

\* C15: a run calls verifyNews at most once, with the new crypto items, then
\* the new stock items, then the new geopolitical items; once the three
\* filterNew lines have returned it has called it exactly when some category
\* has new items, and without the call the evaluator is not contacted.
C15_VerifierCalledOnce ==
    /\ Len(pVerify) <= 1
    /\ pVerify # <<>> =>
          /\ pVerify[1] = pNew["crypto"] \o pNew["indian-stocks"] \o pNew["geopolitical"]
          /\ pVerify[1] # <<>>
    /\ (PastCollection /\ pRaised # "dedup") =>
          (pVerify = <<>> <=> \A cat \in Categories : pNew[cat] = <<>>)
    /\ pVerify = <<>> => (vCalls = 0 /\ vPc = "idle")

\* verifyNews was called with two new crypto items and one geopolitical item
C15_Witness ==
    /\ Len(pVerify) = 1
    /\ Len(pVerify[1]) = 3
    /\ Len(pNew["crypto"]) = 2
    /\ Len(pNew["geopolitical"]) = 1
    /\ vCalls > 0

\* the run's promise has resolved without the catch block
RunCompleted == RunEnded /\ pRaised = "none"

\* the news of the category the run used
NewsOf(cat) == IF IsRejected(cat) THEN <<>> ELSE pIn[cat].news

\* the run collects what the run before collected, and that run completed
\* and had started from an empty store
SameAsBefore ==
    /\ pPrev.completed
    /\ pPrev.emptyStart
    /\ \A cat \in Categories : NewsOf(cat) = pPrev.news[cat]

PassedHashes == UNION { HashesOf(pPassed[k]) : k \in 1..Len(pPassed) }

\* C16: after a completed run that started from an empty store, the store
\* holds exactly one record for the hash of every item passed to filterNew
\* and no other record, and every item of the payload is in the sequence of
\* its category; a run that collects what such a run collected has no new
\* items, does not call verifyNews or the evaluator, and hands off empty
\* sequences.
C16_StoreRemembersRun ==
    /\ (RunCompleted /\ pStart.hashes = {}) =>
          /\ \A h \in PassedHashes : Cardinality({ r \in rows : r.hash = h }) = 1
          /\ { r.hash : r \in rows } = PassedHashes
          /\ \A cat \in Categories : \A j \in 1..Len(PayloadNews(cat)) :
                PayloadNews(cat)[j].category = cat
    /\ (SameAsBefore /\ PastCollection) =>
          /\ \A cat \in Categories : pNew[cat] = <<>>
          /\ pVerify = <<>>
          /\ vCalls = 0
          /\ pPc # "verifying"
          /\ pPayload.called => \A cat \in Categories : PayloadNews(cat) = <<>>

\* the second run collects the three items of two categories the first run
\* stored and hands off no news
C16_Witness ==
    /\ pRun = 2
    /\ SameAsBefore
    /\ Len(pPrev.news["crypto"]) = 2
    /\ Len(pPrev.news["geopolitical"]) = 1
    /\ pPrev.news["indian-stocks"] = <<>>
    /\ Cardinality(rows) = 3
    /\ pPayload.called

----------------------------------------------------------------------------
(* The content hash's claims *)

\* the tracking parameters C17 names
TrackingNames == {"utm_source", "utm_medium", "utm_campaign", "utm_content", "utm_term"}

\* the parameters of the URL text that are not tracking parameters, in order
OtherParams(url) ==
    SelectSeq(SplitParams(UrlQuery(url)), LAMBDA p : Head(p) \notin TrackingNames)

\* the two URL texts differ at most in tracking parameters
SameButTracking(u1, u2) ==
    /\ UrlBase(u1) = UrlBase(u2)
    /\ OtherParams(u1) = OtherParams(u2)

\* the words of a title in lower case: its maximal runs of non-space characters
RECURSIVE Words(_, _)
Words(title, word) ==
    IF title = <<>> THEN (IF word = <<>> THEN <<>> ELSE <<word>>)
    ELSE IF IsSpace(Head(title))
         THEN (IF word = <<>> THEN <<>> ELSE <<word>>) \o Words(Tail(title), <<>>)
         ELSE Words(Tail(title), Append(word, LowerChar(Head(title))))

\* the two titles differ at most in case and in whitespace
SameWords(t1, t2) == Words(t1, <<>>) = Words(t2, <<>>)

Compared == hPair # <<>>

SameHash == hOut.hashes[1] = hOut.hashes[2]

\* C17 as stated, for every URL text: items whose URLs differ at most in
\* tracking parameters and whose titles differ at most in case and
\* whitespace have one hash, and filterNew returns at most one of them.
C17_SameHashForAnyUrl ==
    (Compared /\ SameButTracking(hPair[1].url, hPair[2].url)
              /\ SameWords(hPair[1].title, hPair[2].title)) =>
        /\ SameHash
        /\ Len(hOut.newItems) <= 1

\* C17, for URLs that parse: items whose URLs parse and differ at most in
\* tracking parameters and whose titles differ at most in case and
\* whitespace have one hash, and filterNew returns at most one of them.
C17_SameHashWhenUrlsParse ==
    (Compared /\ ParsesAsUrl(hPair[1].url) /\ ParsesAsUrl(hPair[2].url)
              /\ SameButTracking(hPair[1].url, hPair[2].url)
              /\ SameWords(hPair[1].title, hPair[2].title)) =>
        /\ SameHash
        /\ Len(hOut.newItems) <= 1

\* two items with different tracking parameters next to another parameter
\* and titles in different case and spacing: one hash, one new item
C17_Witness ==
    /\ Compared
    /\ ParsesAsUrl(hPair[1].url)
    /\ ParsesAsUrl(hPair[2].url)
    /\ hPair[1].url # hPair[2].url
    /\ OtherParams(hPair[1].url) # <<>>
    /\ SameButTracking(hPair[1].url, hPair[2].url)
    /\ hPair[1].title # hPair[2].title
    /\ Len(Words(hPair[1].title, <<>>)) = 2
    /\ SameWords(hPair[1].title, hPair[2].title)
    /\ SameHash
    /\ Len(hOut.newItems) = 1

\* C18: two items whose (normalized URL, normalized title) pairs differ have
\* different hashes.
C18_HashIdentifiesPair ==
    (Compared /\ <<normalizeUrl(hPair[1].url), normalizeTitle(hPair[1].title)>>
                 # <<normalizeUrl(hPair[2].url), normalizeTitle(hPair[2].title)>>) =>
        ~SameHash

----------------------------------------------------------------------------
(* The store's claims on cleanup and getStats *)

\* the records first seen before now - days, on the table before the call
OlderThan(days) == { r \in rows : r.first_seen + days * TicksPerDay < now }

\* C19: a cleanup call on an initialized store leaves in the table exactly
\* the records that are not older than the retention window, each as it
\* was, and when it returns, it returns the number of records it removed.
C19_CleanupRemovesExpired ==
    [][(IsCall("cleanup") /\ db = "open") =>
        /\ rows' = rows \ OlderThan(last'.days)
        /\ last'.outcome = "returned" =>
              /\ last'.count = Cardinality(OlderThan(last'.days))
              /\ last'.count = Cardinality(rows) - Cardinality(rows')]_vars

\* a cleanup has returned 1 and has kept a record first seen exactly at the
\* cutoff
C19_Witness ==
    /\ last.op = "cleanup"
    /\ last.outcome = "returned"
    /\ last.count = 1
    /\ \E r \in rows : r.first_seen + last.days * TicksPerDay = now

\* C20: filterNew and getStats keep every record of the table as it is;
\* a record filterNew adds has a hash the table did not hold; getStats
\* changes neither the table nor the file.
C20_AppendOnly ==
    [][/\ (IsCall("filterNew") \/ IsCall("getStats")) => rows \subseteq rows'
       /\ IsCall("filterNew") =>
             \A r \in rows' \ rows : \A q \in rows : q.hash # r.hash
       /\ IsCall("getStats") => (rows' = rows /\ file' = file /\ db' = db)]_vars

\* a hash stored earlier was submitted again with another title and
\* category: nothing is new and the record is as it was
C20_Witness ==
    /\ last.op = "filterNew"
    /\ last.outcome = "returned"
    /\ last.items # <<>>
    /\ last.result = <<>>
    /\ \E r \in rows :
          /\ r.hash = contentHash[last.items[1]]
          /\ r.title # last.items[1].title
          /\ r.category # last.items[1].category
          /\ r.first_seen < now

----------------------------------------------------------------------------
(* The title normalization's claim *)

\* a title has no leading or trailing whitespace, no whitespace run longer
\* than one character and no whitespace character but the space
IsNormalForm(t) ==
    /\ t # <<>> => ~IsSpace(t[1]) /\ ~IsSpace(t[Len(t)])
    /\ \A i \in 1..Len(t) : IsSpace(t[i]) => t[i] = " "
    /\ \A i \in 1..(Len(t) - 1) : ~(IsSpace(t[i]) /\ IsSpace(t[i + 1]))

\* C29: normalizeTitle is idempotent: for every title t,
\* normalizeTitle(normalizeTitle(t)) equals normalizeTitle(t).
C29_NormalizeTitleIdempotent ==
    hPair # <<>> => \A i \in 1..2 : hOut.again[i] = hOut.titles[i]

\* a title with a run of four spaces and a title with tabs and a line break
\* were normalized: both changed, and normalizing the results changed nothing
C29_Witness ==
    /\ hPair # <<>>
    /\ hPair[1].title = <<"B", " ", " ", " ", " ", "c">>
    /\ hPair[2].title = <<"\t", "b", "\n", "\t", "C", " ">>
    /\ hOut.titles = << <<"b", " ", "c">>, <<"b", " ", "c">> >>
    /\ hOut.again = hOut.titles
    /\ \A i \in 1..2 : IsNormalForm(hOut.titles[i])


----------------------------------------------------------------------------
(* The verifier's claim on an empty input *)

\* C27: verifyNews called with an empty sequence returns an empty sequence
\* without contacting the evaluator: no attempt is made, withRetry never
\* sleeps and the fallback is not used.
C27_EmptyInputShortCircuits ==
    /\ (vPc # "idle" /\ vItems = <<>>) =>
          /\ vPc = "done"
          /\ vOut.outcome = "returned"
          /\ vOut.result = <<>>
          /\ vOut.path \notin {"evaluator", "fallback"}
          /\ vCalls = 0
          /\ vFailed = 0
          /\ vAttempt = 0
          /\ vSleeps = <<>>
          /\ vText = <<>>
    /\ vCalls > 0 => vItems # <<>>

\* verifyNews was called with no items and has returned
C27_Witness ==
    /\ vPc = "done"
    /\ vItems = <<>>
    /\ vOut.outcome = "returned"
    /\ vOut.result = <<>>
    /\ vCalls = 0


----------------------------------------------------------------------------
(* The collectors' claims on the cap, the order and the title fold *)

CollectorReturned == cOut.outcome = "returned"

\* an item's timestamp, an item without one counting as zero
Stamp(item) == IF item.publishedAt = NoDate THEN 0 ELSE item.publishedAt

\* the positions of the merged list whose title, compared by its lower-case
\* words, occurs at no earlier position
FirstOccurrences(merged) ==
    LET key == [i \in 1..Len(merged) |-> Words(merged[i].title, <<>>)]
    IN  { i \in 1..Len(merged) : \A j \in 1..(i - 1) : key[j] # key[i] }

\* the day of the week in India at an instant, 0 for Monday: India is five
\* and a half hours ahead of UTC
DayInIndia(utc) == ((utc + 11) \div 48) % 7

\* the cap the claim gives the collector running
ClaimedCap ==
    IF cCat \in {"crypto", "geopolitical"} THEN 8
    ELSE IF DayInIndia(cClock.utc) \in {5, 6} THEN 5 ELSE 10

Min(a, b) == IF a < b THEN a ELSE b

InNews(item) == \E p \in 1..Len(cOut.news) : cOut.news[p] = item

\* C21: each collector returns min(cap, n) items, n the number of distinct
\* normalized titles among the merged adapter items and cap 8 for crypto
\* and geopolitical and, for the market category, 5 when the day in India is
\* Saturday or Sunday and 10 otherwise; the items returned are the most
\* recent of the title-deduplicated list: every deduplicated item left out
\* is no more recent than any item returned.
C21_CapAfterSort ==
    CollectorReturned =>
        LET firsts == FirstOccurrences(cOut.merged)
        IN  /\ Len(cOut.news) = Min(ClaimedCap, Cardinality(firsts))
            /\ \A p \in 1..Len(cOut.news) : \E i \in firsts : cOut.merged[i] = cOut.news[p]
            /\ \A p, q \in 1..Len(cOut.news) : p # q => cOut.news[p] # cOut.news[q]
            /\ \A i \in firsts :
                  ~InNews(cOut.merged[i]) =>
                      \A p \in 1..Len(cOut.news) : Stamp(cOut.news[p]) >= Stamp(cOut.merged[i])

\* the market collector, called at Saturday 00:00 in India (Friday 18:30
\* UTC), returned 5 of more than 10 distinct titles, and left out a dated item
C21_Witness ==
    /\ CollectorReturned
    /\ cCat = "indian-stocks"
    /\ cClock.utc = 4 * 48 + 37
    /\ DayInIndia(cClock.utc) = 5
    /\ Cardinality(FirstOccurrences(cOut.merged)) > 10
    /\ Len(cOut.news) = 5
    /\ \E i \in 1..Len(cOut.merged) : ~InNews(cOut.merged[i]) /\ Stamp(cOut.merged[i]) > 0

HasStamp(item) == item.publishedAt # NoDate

Descending ==
    \A p, q \in 1..Len(cOut.news) :
        p < q => Stamp(cOut.news[p]) >= Stamp(cOut.news[q])

\* C22 as stated: in every collector result the news items are in
\* descending order of timestamp, an item without a timestamp counting as
\* zero, and every item without a timestamp comes after every item that has
\* one.
C22_UndatedAfterEveryDated ==
    CollectorReturned =>
        /\ Descending
        /\ \A p, q \in 1..Len(cOut.news) :
              (~HasStamp(cOut.news[p]) /\ HasStamp(cOut.news[q])) => q < p

\* C22: in every collector result the news items are in descending order
\* of timestamp, an item without a timestamp counting as zero, so that every
\* item without a timestamp comes after every item whose timestamp is later
\* than the epoch.
C22_DescendingByTimestamp ==
    CollectorReturned =>
        /\ Descending
        /\ \A p, q \in 1..Len(cOut.news) :
              (~HasStamp(cOut.news[p]) /\ HasStamp(cOut.news[q]) /\ Stamp(cOut.news[q]) > 0)
                  => q < p

\* a result with an item without a timestamp after an item dated after the
\* epoch and before an item dated before it
C22_Witness ==
    /\ CollectorReturned
    /\ \E p, q, r \in 1..Len(cOut.news) :
          /\ p < q /\ q < r
          /\ HasStamp(cOut.news[p]) /\ Stamp(cOut.news[p]) > 0
          /\ ~HasStamp(cOut.news[q])
          /\ HasStamp(cOut.news[r]) /\ Stamp(cOut.news[r]) < 0

\* C23: no collector result has two items with the same normalized title,
\* and every item of the result is, among the merged adapter items with its
\* normalized title, the first in merge order, whatever the timestamps.
C23_FirstTitleWins ==
    CollectorReturned =>
        LET firsts == FirstOccurrences(cOut.merged)
            words  == [p \in 1..Len(cOut.news) |-> Words(cOut.news[p].title, <<>>)]
        IN  /\ \A p, q \in 1..Len(cOut.news) : p # q => words[p] # words[q]
            /\ \A p \in 1..Len(cOut.news) : \E i \in firsts : cOut.merged[i] = cOut.news[p]

\* a result that kept an item without a timestamp although a later adapter
\* delivered the same title, in another case and spacing, with a timestamp
C23_Witness ==
    /\ CollectorReturned
    /\ \E p \in 1..Len(cOut.news), i, j \in 1..Len(cOut.merged) :
          /\ i < j
          /\ cOut.merged[i] = cOut.news[p]
          /\ cOut.merged[j].title # cOut.merged[i].title
          /\ SameWords(cOut.merged[i].title, cOut.merged[j].title)
          /\ Stamp(cOut.merged[j]) > Stamp(cOut.merged[i])
          /\ ~InNews(cOut.merged[j])


----------------------------------------------------------------------------
(* The collectors' claim on the error entries *)

\* the error entry has the text as one of its parts
Names(entry, text) == \E i \in 1..Len(entry) : entry[i] = text

\* C24: when every retry attempt of a feed adapter fails, the adapter
\* raises a failure naming the source by its retry label, so the error entry
\* the collector records for the adapter names the failed source.
C24_ErrorEntryNamesSource ==
    CollectorReturned =>
        \A k \in Settled("rejected") :
            Adapters(cCat)[k].kind = "news" =>
                \E e \in 1..Len(cOut.errors) : Names(cOut.errors[e], Adapters(cCat)[k].label)


----------------------------------------------------------------------------
(* The claims on the bulletin: the sender and the runs around it *)

\* the lines of a sequence of texts
AllLines(texts) == UNION { { texts[m][l] : l \in 1..Len(texts[m]) } : m \in 1..Len(texts) }

\* the lines that show an item of the category
LinkLines(texts, cat) ==
    { ln \in AllLines(texts) : ln.kind = "link" /\ ln.item.category = cat }

\* the text is the note on the data sources
IsIssuesNote(text) == \E l \in 1..Len(text) : text[l].kind = "issues"

\* the list of the category in sendNewsBulletin's arguments
ArgNews(cat) ==
    CASE cat = "crypto"        -> sArgs.cryptoNews
      [] cat = "indian-stocks" -> sArgs.stockNews
      [] cat = "geopolitical"  -> sArgs.geopoliticalNews

Listed(item) == \E i \in 1..Len(ArgNews(item.category)) : ArgNews(item.category)[i] = item

SectionLimit(cat) == IF cat = "indian-stocks" THEN 10 ELSE 5

\* C25: a run in which some sources failed still hands off a bulletin with
\* the verified items of every category, whatever failed in that category or
\* in the others, and the texts built from it show the verified ones; when
\* the error list has n > 0 entries, the note naming n is sent after all
\* texts of the bulletin, and only then; a failure to send the note does not
\* make sendNewsBulletin fail: the run records the bulletin as sent.
C25_PartialFailuresStillDelivered ==
    /\ []((pErrors # <<>> /\ pRaised # "dedup" /\ pPc \in {"handoff", "notice"}) =>
             /\ pPayload.called
             /\ pPayload.errors = pErrors
             /\ \A i \in 1..Len(pVerified) :
                   \E j \in 1..Len(PayloadNews(pVerified[i].category)) :
                       PayloadNews(pVerified[i].category)[j] = pVerified[i])
    /\ [](sPc \in {"bulletin", "note", "returned", "raised"} =>
             /\ \A cat \in Categories : \A j \in 1..Len(ArgNews(cat)) :
                   ArgNews(cat)[j].isVerified =>
                       \E ln \in LinkLines(sSent \o sQueue, cat) : ln.item = ArgNews(cat)[j]
             /\ \A m \in 1..Len(sSent) :
                   IsIssuesNote(sSent[m]) =>
                       /\ m = Len(sSent) /\ m > 1 /\ sQueue = <<>>
                       /\ Len(sSent[m]) = 1
                       /\ sSent[m][1].count = Len(sArgs.errors)
                       /\ Len(sArgs.errors) > 0
             /\ \A m \in 1..Len(sQueue) : ~IsIssuesNote(sQueue[m])
             /\ sPc = "raised" => sQueue # <<>>
             /\ sPc \in {"note", "returned"} => sQueue = <<>>
             /\ sPc = "note" => Len(sArgs.errors) > 0 /\ ~IsIssuesNote(sSent[Len(sSent)])
             /\ (sPc = "returned" /\ Len(sArgs.errors) = 0) => ~IsIssuesNote(sSent[Len(sSent)]))
    /\ [][/\ (sPc = "bulletin" /\ sPc' # "bulletin" /\ sPc' # "raised") =>
                sPc' = IF Len(sArgs.errors) > 0 THEN "note" ELSE "returned"
          /\ sPc = "note" => sPc' \in {"note", "returned"}
          /\ (sPc = "returned" /\ sPc' # "returned") =>
                /\ pSend'.bulletin = "sent"
                /\ pSend'.lastSuccessfulSend = now
                /\ pRaised' # "handoff"
          /\ (pRaised # "handoff" /\ pRaised' = "handoff") => (sPc = "raised" /\ sQueue # <<>>)]_vars

\* the market collector crashed and the geopolitical one lost a source; the
\* bulletin with the crypto and geopolitical items went out in three texts,
\* the note on the 2 sources was refused, and sendNewsBulletin returned
C25_Witness ==
    /\ pPc = "handoff"
    /\ sPc = "returned"
    /\ pIn["indian-stocks"].status = "rejected"
    /\ pIn["geopolitical"].errors # <<>>
    /\ Len(pErrors) = 2
    /\ pPayload.geopoliticalNews # <<>>
    /\ pPayload.cryptoNews # <<>>
    /\ Len(sSent) = 3
    /\ \A m \in 1..Len(sSent) : ~IsIssuesNote(sSent[m])
    /\ LinkLines(sSent, "geopolitical") # {}

\* C26: when the save of a filterNew call fails in a run, the exception
\* leaves filterNew and the three lines: no further filterNew call is made,
\* verifyNews and the evaluator are not called, sendNewsBulletin is not
\* called, and the run ends through the catch block with the error notice.
C26_FilterNewSaveFailurePropagates ==
    /\ [][CollectionEnds =>
            /\ Len(pSaves') = Len(pPassed')
            /\ \A k \in 1..(Len(pSaves') - 1) : pSaves'[k] = "written"
            /\ (\E k \in 1..Len(pSaves') : pSaves'[k] # "written") =>
                  /\ pRaised' = "dedup"
                  /\ pPc' = "notice"
                  /\ pVerify' = <<>>
                  /\ vPc' = "idle"
                  /\ ~pPayload'.called
                  /\ sPc' = "idle"]_vars
    /\ [](pRaised = "dedup" =>
            /\ pPc \in {"notice", "idle"}
            /\ pVerify = <<>> /\ vCalls = 0 /\ pVerified = <<>>
            /\ ~pPayload.called /\ sPc = "idle" /\ sSent = <<>>
            /\ pSend.bulletin = "none"
            /\ pPc = "idle" => pSend.notice \in {"sent", "failed"})

\* a run ended with the notice after the save of its second filterNew call
\* failed, the first having returned new items
C26_Witness ==
    /\ RunEnded
    /\ pRaised = "dedup"
    /\ pSaves = <<"written", "failed">>
    /\ Len(pPassed) = 2
    /\ pNew["crypto"] # <<>>
    /\ pSend.notice = "sent"
    /\ pVerify = <<>>
    /\ ~pPayload.called

\* C28: every item shown in a text of the bulletin has isVerified = true
\* and is an item of the arguments; an item marked untrusted is shown in no
\* text; the texts show at most 5 crypto, 10 market and 5 geopolitical items.
C28_OnlyVerifiedShown ==
    LET texts == sSent \o sQueue
    IN  /\ \A ln \in AllLines(texts) :
              ln.kind \in {"link", "source", "note"} => (ln.item.isVerified /\ Listed(ln.item))
        /\ \A cat \in Categories : \A j \in 1..Len(ArgNews(cat)) :
              ~ArgNews(cat)[j].isVerified =>
                  \A ln \in AllLines(texts) :
                      ln.kind \in {"link", "source", "note"} => ln.item # ArgNews(cat)[j]
        /\ \A cat \in Categories : Cardinality(LinkLines(texts, cat)) <= SectionLimit(cat)

\* a bulletin was sent for eight crypto items, ten market items and eight
\* geopolitical items with unverified ones among them: it shows 5, 9 and 5,
\* and leaves out a verified crypto item beyond the limit
C28_Witness ==
    /\ sPc = "returned"
    /\ Len(sArgs.cryptoNews) = 8
    /\ Len(sArgs.stockNews) = 10
    /\ Len(sArgs.geopoliticalNews) = 8
    /\ \E j \in 1..8 : ~sArgs.cryptoNews[j].isVerified
    /\ Cardinality(LinkLines(sSent, "crypto")) = 5
    /\ Cardinality(LinkLines(sSent, "indian-stocks")) = 9
    /\ Cardinality(LinkLines(sSent, "geopolitical")) = 5
    /\ sArgs.cryptoNews[8].isVerified
    /\ \A ln \in LinkLines(sSent, "crypto") : ln.item # sArgs.cryptoNews[8]

\* the hashes of the payload's items
PayloadHashes ==
    UNION { { contentHash[ItemOf(PayloadNews(cat)[j])] : j \in 1..Len(PayloadNews(cat)) } :
            cat \in Categories }

NewHashes(new) == UNION { HashesOf(new[cat]) : cat \in Categories }

\* C30: the items filterNew returns are recorded when it returns, before
\* verification and handoff, and the records stay whatever happens to the
\* run: only the cleanup after a returned sendNewsBulletin removes records,
\* and only records older than the retention window. So a run's filterNew
\* returns no item whose hash was recorded and not pruned since, and a run
\* hands off only items its own filterNew returned: until pruning removes
\* its record an item is handed off in at most one run, and never when its
\* run failed after the dedup.
C30_RecordedBeforeHandoff ==
    /\ [](/\ pSeen \subseteq HashSet(rows)
          /\ NewHashes(pNew) \subseteq HashSet(rows)
          /\ PayloadHashes \subseteq NewHashes(pNew))
    /\ [][/\ CollectionEnds =>
                /\ NewHashes(pNew') \cap pSeen = {}
                /\ NewHashes(pNew') \cap HashSet(rows) = {}
                /\ NewHashes(pNew') \subseteq HashSet(rows')
          /\ ~(rows \subseteq rows') =>
                /\ pPc = "handoff" /\ sPc = "returned" /\ pSend'.bulletin = "sent"
                /\ \A r \in rows \ rows' : r.first_seen + RetentionDays * TicksPerDay < now
          /\ ~(pSeen \subseteq pSeen') =>
                pSeen \ pSeen' = HashSet(rows \ rows')]_vars

\* the first run of the process recorded the crypto items and delivered
\* nothing; the second run collected them again, its filterNew returned none
\* of them, and it has handed off a bulletin without crypto items
C30_Witness ==
    /\ pRun = 2
    /\ pSend.lastSuccessfulSend = NoDate
    /\ pIn["crypto"].status = "fulfilled"
    /\ pIn["crypto"].news = CryptoNews
    /\ HashesOf(CryptoNews) \subseteq pSeen
    /\ HashesOf(CryptoNews) \subseteq pStart.hashes
    /\ pNew["crypto"] = <<>>
    /\ pPayload.called
    /\ pPayload.cryptoNews = <<>>
    /\ sPc = "returned"

----------------------------------------------------------------------------
(* The store's claim on a store that is not open *)

\* the store has no database: never initialized, closed, or lost with the
\* process
NotOpen == db = "null"

\* C37: on a store that was never initialized or has been closed, filterNew
\* returns all its input items unchanged, inserts nothing and writes no
\* file, cleanup returns 0 and getStats returns total 0 and today 0; none of
\* them raises.
C37_NotOpenStoreIsInert ==
    [][ (NotOpen /\ last'.op \in {"filterNew", "cleanup", "getStats"})
        => /\ last'.outcome = "returned"
           /\ rows' = rows
           /\ file' = file
           /\ db' = db
           /\ last'.op = "filterNew" => last'.result = last'.items
           /\ last'.op = "cleanup"   => last'.count = 0
           /\ last'.op = "getStats"  => last'.count = 0 /\ last'.today = 0 ]_vars

\* filterNew on a closed store has returned an item whose hash is in the
\* store file
C37_Witness ==
    /\ NotOpen
    /\ last.op = "filterNew"
    /\ last.outcome = "returned"
    /\ \E i \in 1..Len(last.items) :
          /\ last.result = last.items
          /\ contentHash[last.items[i]] \in { r.hash : r \in file.rows }

----------------------------------------------------------------------------
(* withRetry's claim on the attempts and the waits *)

\* the positions of rTrace that are invocations of fn
FnCalls == { i \in 1..Len(rTrace) : rTrace[i].kind = "fn" }

\* the invocation at position i threw
Failed(i) == rTrace[i].kind = "fn" /\ rTrace[i].result = "threw"

\* the invocation at position i resolved
Succeeded(i) == rTrace[i].kind = "fn" /\ rTrace[i].result \in FnValues

\* C33: withRetry(fn, N, d) invokes fn at most N times, returns the result
\* of the first successful attempt without any further attempt, waits k * d
\* after the k-th failed attempt for every k < N, and does not wait after
\* the N-th failed attempt before raising.
C33_AttemptsAndWaits ==
    LET N == rArgs.maxRetries
        d == rArgs.delayMs
        len == Len(rTrace)
    IN  /\ Cardinality(FnCalls) <= N
        /\ \A i \in FnCalls : rTrace[i].n = Cardinality({ k \in FnCalls : k <= i })
        /\ \A i \in FnCalls :
              Succeeded(i) => /\ i = len
                              /\ rPc = "returned"
                              /\ rOut.value = rTrace[i].result
        /\ rPc = "returned" => len > 0 /\ Succeeded(len)
        /\ \A i \in FnCalls :
              (Failed(i) /\ rTrace[i].n < N)
                  => i < len /\ rTrace[i + 1] = SleepEvent(rTrace[i].n * d)
        /\ \A i \in FnCalls :
              (Failed(i) /\ rTrace[i].n = N) => i = len /\ rPc = "raised"
        /\ \A i \in 1..len : rTrace[i].kind = "sleep" => i > 1 /\ Failed(i - 1)
        /\ rPc = "raised" => len > 0 /\ Failed(len) /\ rTrace[len].n = N

\* three attempts have failed: withRetry slept 2000 and 4000 ms in between
\* and has raised
C33_Witness ==
    /\ rPc = "raised"
    /\ rArgs = [maxRetries |-> 3, delayMs |-> 2000]
    /\ rTrace = << FnEvent(1, "threw"), SleepEvent(2000),
                   FnEvent(2, "threw"), SleepEvent(4000),
                   FnEvent(3, "threw") >>

----------------------------------------------------------------------------
(* The headline split's claim *)

\* the hyphens of the title with whitespace on both sides and a source name
\* after them
Separators(title) ==
    { h \in 2..(Len(title) - 1) :
        /\ IsSpace(title[h - 1])
        /\ title[h] = "-"
        /\ IsSpace(title[h + 1])
        /\ Trim(SubSeq(title, h + 1, Len(title))) # <<>> }

LastSeparator(title) ==
    CHOOSE h \in Separators(title) : \A k \in Separators(title) : k <= h

\* C39: when the title ends with whitespace, a hyphen, whitespace and a
\* source name, cleanTitle is the text before that last separator and source
\* is the trimmed text after it; when the title has no such trailing
\* pattern, cleanTitle is the unchanged title and source is the default
\* label "Google News".
C39_SplitsOnTrailingSource ==
    gOut.called =>
        IF Separators(gTitle) # {}
        THEN LET h == LastSeparator(gTitle)
             IN  /\ Trim(gOut.cleanTitle) = Trim(SubSeq(gTitle, 1, h - 1))
                 /\ gOut.source = Trim(SubSeq(gTitle, h + 1, Len(gTitle)))
        ELSE /\ gOut.cleanTitle = gTitle
             /\ gOut.source = DefaultSource

\* the split of the headline with the hyphenated outlet is the default one
C39_HyphenatedOutletUnsplit ==
    (gOut.called /\ gTitle = HyphenatedOutlet)
        => gOut.cleanTitle = gTitle /\ gOut.source = DefaultSource

----------------------------------------------------------------------------
(* The verifier's claims on the array taken from the response and on the
   verdict words *)

\* the spans of the text that are a valid verdict array: "[", objects only,
\* "]"
VerdictArrays(text) ==
    { ab \in (1..Len(text)) \X (1..Len(text)) :
        /\ ab[1] < ab[2]
        /\ text[ab[1]] = LBracket
        /\ text[ab[2]] = RBracket
        /\ \A k \in (ab[1] + 1)..(ab[2] - 1) : text[k].kind = "object" }

\* the objects of the one valid verdict array of the text
WrappedBody(text) ==
    LET ab == CHOOSE x \in VerdictArrays(text) : TRUE
    IN  SubSeq(text, ab[1] + 1, ab[2] - 1)

\* the text around the one valid verdict array holds a bracket
BracketsAround(text) ==
    LET ab == CHOOSE x \in VerdictArrays(text) : TRUE
    IN  \E k \in 1..Len(text) :
           (k < ab[1] \/ k > ab[2]) /\ text[k] \in {LBracket, RBracket}

\* C34: a response that wraps one valid verdict array in arbitrary
\* surrounding text, text with "[" or "]" before or after the array
\* included, yields the verdicts of that array: prose followed by a
\* one-entry FAIL array with reason "clickbait" makes item 1 untrusted with
\* the note "clickbait".
C34_WrappedArrayIsTaken ==
    (VerifyDone /\ AttemptSucceeded /\ Cardinality(VerdictArrays(vText)) = 1) =>
        \A i \in 1..Len(vItems) :
            vOut.result[i] = ApplyVerdict(vItems[i], Indexed(WrappedBody(vText), i))

\* C36: an entry whose verdict is anything other than exactly "FAIL" or
\* "UNCERTAIN" (none, another letter case, an unknown word) makes its item
\* trusted with no note, and an item is untrusted after a successful
\* evaluator call only if the entry carrying its index has the verdict
\* "FAIL"; the entry of an item is the last one of the parsed array that
\* carries the item's index.
C36_OnlyExactFailExcludes ==
    (VerifyDone /\ AttemptSucceeded) =>
        \A i \in 1..Len(vItems) :
            /\ (ParsesToArray(vText) /\ HasEntry(vText, i)
                  /\ EntryFor(vText, i).verdict \notin {"FAIL", "UNCERTAIN"})
                  => TrustedNoNote(vOut.result[i])
            /\ ~vOut.result[i].isVerified
                  => /\ ParsesToArray(vText)
                     /\ HasEntry(vText, i)
                     /\ EntryFor(vText, i).verdict = "FAIL"

\* the array's entries were "fail" for item 1 and "FAIL" for item 2: the
\* first is trusted with no note, the second is not trusted
C36_Witness ==
    /\ VerifyDone
    /\ AttemptSucceeded
    /\ Len(vItems) = 2
    /\ vText = ArrayText(<<Entry(1, "fail", ""), Entry(2, "FAIL", "clickbait")>>)
    /\ TrustedNoNote(vOut.result[1])
    /\ ~vOut.result[2].isVerified

----------------------------------------------------------------------------
(* The orchestrator's claim on one content under two categories *)

\* the run's collectors have settled and its filterNew calls are over
DedupOver == pRun > 0 /\ pPc \in {"verifying", "handoff", "notice", "idle"}

\* the news the run's collector of the category returned
RunNews(cat) == Collected(cat, pIn).news

InSeq(x, s) == \E i \in 1..Len(s) : s[i] = x

\* the two items have the same normalized URL and the same normalized title
SameContent(a, b) ==
    normalizeUrl(a.url) = normalizeUrl(b.url) /\ normalizeTitle(a.title) = normalizeTitle(b.title)

\* the item is in the payload's sequence of the category
InPayload(item, cat) ==
    \E j \in 1..Len(PayloadNews(cat)) : ItemOf(PayloadNews(cat)[j]) = item

\* C35: the content hash does not include the category and filterNew is
\* called for crypto, then market, then geopolitical on one store: when the
\* same normalized URL and title is collected under two categories in one
\* run, it is returned as new only for the earlier one (for that one whenever
\* the store did not know it and no save failed) and it is absent from the
\* later category's new items and from its sequence in the payload.
C35_SharedContentGoesToEarlierCategory ==
    DedupOver =>
        \A k1, k2 \in 1..Len(CategoryOrder) :
            k1 < k2 =>
                LET c1 == CategoryOrder[k1]
                    c2 == CategoryOrder[k2]
                IN  \A i \in 1..Len(RunNews(c1)), j \in 1..Len(RunNews(c2)) :
                        SameContent(RunNews(c1)[i], RunNews(c2)[j]) =>
                            /\ ~InSeq(RunNews(c2)[j], pNew[c2])
                            /\ ~InPayload(RunNews(c2)[j], c2)
                            /\ (contentHash[RunNews(c1)[i]] \notin pStart.hashes
                                  /\ pRaised # "dedup")
                                  => InSeq(RunNews(c1)[i], pNew[c1])

\* the crypto and the stock collector returned the same content on a store
\* that did not know it: the payload has it under crypto and has no stock
\* news
C35_Witness ==
    /\ pPc = "handoff"
    /\ RunNews("crypto") = CryptoNews
    /\ RunNews("indian-stocks") = StockNews
    /\ SameContent(CryptoNews[1], StockNews[1])
    /\ InSeq(CryptoNews[1], pNew["crypto"])
    /\ InPayload(CryptoNews[1], "crypto")
    /\ pNew["indian-stocks"] = <<>>
    /\ pPayload.called
    /\ pPayload.stockNews = <<>>

----------------------------------------------------------------------------
(* The orchestrator's claim on the order of the stages *)

\* the steps of a run, read off the variables: a filterNew call is made,
\* verifyNews is called, sendNewsBulletin is called, cleanup makes its save
FilterNewCalled == pPassed' # pPassed /\ pPassed' # <<>>

VerificationStarts == vPc = "idle" /\ vPc' = "attempt"

HandedOff == ~pPayload.called /\ pPayload'.called

CleanupRuns == pPc \notin {"start", "idle", "collecting"} /\ pSaves' # pSaves

\* the changes of stage a run can make
StageSteps ==
    { <<"start", "idle">>, <<"start", "exited">>, <<"idle", "collecting">>,
      <<"collecting", "verifying">>, <<"collecting", "handoff">>, <<"collecting", "notice">>,
      <<"verifying", "handoff">>, <<"handoff", "idle">>, <<"handoff", "notice">>,
      <<"notice", "idle">> }

\* C32: within one run the stages come in the order collecting, deduping,
\* verifying, handoff, maintenance: no filterNew call is made before all
\* three collectors have settled, verifyNews is called only after all
\* filterNew calls, the payload is handed off only after verification has
\* returned (when nothing is new, without a verification), and cleanup runs
\* only after a handoff that did not fail.
C32_StagesInOrder ==
    [][ /\ pPc' # pPc => <<pPc, pPc'>> \in StageSteps
        /\ FilterNewCalled =>
              pPc = "collecting" /\ \A c \in Categories : pIn[c].status # "pending"
        /\ VerificationStarts =>
              /\ pPassed' = NewsToFilter
              /\ pRaised' = "none"
              /\ pPc' = "verifying"
              /\ ~pPayload'.called
        /\ HandedOff =>
              /\ pPassed' = NewsToFilter
              /\ vPc \in {"idle", "done"}
              /\ vPc = "idle" => Flatten(pNew') = <<>>
              /\ vPc = "done" => pPc = "verifying" /\ pVerified' = vOut.result
        /\ CleanupRuns =>
              /\ pPc = "handoff"
              /\ pPayload.called
              /\ sPc = "returned"
              /\ pSend'.bulletin = "sent" ]_vars

\* a run went through every stage: filterNew calls, a verification, a
\* delivered bulletin and the cleanup's save after them
C32_Witness ==
    /\ pPc = "idle"
    /\ pRun > 0
    /\ pRaised = "none"
    /\ pPassed # <<>>
    /\ pVerify # <<>>
    /\ pPayload.called
    /\ pSend.bulletin = "sent"
    /\ Len(pSaves) = Len(pPassed) + 1

----------------------------------------------------------------------------
(* The sender's claim on the length of the messages *)

\* the texts of the bulletin in the order sendNewsBulletin passes them to
\* sendHtml: the ones accepted so far and the ones still to send, the note
\* on the data sources left out
BulletinTexts == SelectSeq(sSent, LAMBDA text : ~IsIssuesNote(text)) \o sQueue

\* the three sections sent one by one
SectionsOf(args) ==
    << JoinBlank(buildHeader, buildCryptoSection(args.cryptoNews)),
       buildStockSection(args.stockQuotes, args.stockNews, args.marketStatus),
       JoinBlank(buildGeopoliticalSection(args.geopoliticalNews), buildFooter) >>

\* the lines of a sequence of texts that are not empty, in order, each as
\* what it shows
RECURSIVE ShownLines(_)
ShownLines(texts) ==
    IF texts = <<>> THEN <<>>
    ELSE LET shown == SelectSeq(Head(texts), LAMBDA ln : ln.kind # "blank")
         IN  [l \in 1..Len(shown) |-> <<shown[l].kind, shown[l].item>>]
             \o ShownLines(Tail(texts))

\* the bulletin does not fit one message
TooLong(args) ==
    TextLength(JoinBlank(SectionsOf(args)[1],
                         JoinBlank(SectionsOf(args)[2], SectionsOf(args)[3])))
        > TELEGRAM_MAX_LENGTH

\* the texts of a bulletin sent in sections hold every line of the three
\* sections, in the order header and crypto, market, geopolitical and footer
SectionsInOrder ==
    (sPc # "idle" /\ TooLong(sArgs)) => ShownLines(BulletinTexts) = ShownLines(SectionsOf(sArgs))

\* C38: every message sendNewsBulletin sends has at most 4096 characters: a
\* bulletin longer than the limit is sent as separate sections in the order
\* header and crypto, market, geopolitical and footer, and a section longer
\* than the limit is split at line boundaries into chunks that are each
\* within the limit and together hold every line of the section in order.
C38_EveryMessageWithinLimit ==
    /\ SectionsInOrder
    /\ \A m \in 1..Len(sSent) : TextLength(sSent[m]) <= TELEGRAM_MAX_LENGTH
    /\ \A m \in 1..Len(sQueue) : TextLength(sQueue[m]) <= TELEGRAM_MAX_LENGTH

----------------------------------------------------------------------------
(* The claim on two runs in flight at once *)

\* the run is between its trigger and the resolution of its promise
InFlight(t) == oRuns[t].pc \in {"collecting", "verifying", "handoff", "notice"}

\* the hashes of the items filterNew returned to the run
ReceivedAsNew(t) == UNION { HashesOf(oRuns[t].new[c]) : c \in Categories }

====
